---- MODULE Spec2Model ----
(***************************************************************************)
(* Model of gwrappy's paginated lister (gwrappy.utils.iterate_list, a      *)
(* Python generator driven by a consumer) and of the BigQuery job waiter   *)
(* (BigqueryUtility.poll_job_status).                                      *)
(*                                                                         *)
(* Spec      : one iterate_list generator and its consumer.                *)
(* LiveSpec  : listings with a reject-all filter_exp, generator steps fair.*)
(* SpecPoll  : one poll_job_status call.                                   *)
(* SpecError : construction of a JobError.                                 *)
(* SpecWaiters, LiveWaiters : the BigQuery, Compute and Dataproc waiters.  *)
(* SpecCalls : BigqueryUtility methods that issue remote calls.            *)
(* SpecTables: table and job methods, Dataproc waits with wait_finish.     *)
(* SpecChunks: chunked upload and download of GcsUtility.                  *)
(* SpecTwo   : two interleaved invocations of a lister or a wait.          *)
(* SpecEager : gwrappy.iterator.iterate_list beside the generator.         *)
(* SpecZones : ComputeEngineUtility listings over every zone.              *)
(***************************************************************************)
EXTENDS Integers, Sequences, FiniteSets, TLC

\* ---------------------------------------------------------------- bounds
MaxPages == 2        \* longest page chain the server holds
MaxItems == 3        \* most items the server lists over all pages
MaxCap == 2          \* largest max_results tried
MaxExtraPulls == 1   \* pulls the consumer makes after the sequence ended
MaxPolls == 3        \* most status fetches of one wait

NoCap == -1          \* max_results=None
NoToken == 0         \* no pageToken argument / no nextPageToken key

VARIABLES
    \* the listing service and the arguments of iterate_list
    pages, max_results, max_retries, filter_exp, break_condition, kwargs,
    \* the generator's frame
    pc, resp, idx, object_count, page_token,
    \* what the service and the consumer observe
    calls, out, results, pulls,
    \* poll_job_status: its frame and what it observes
    jpc, job_resp, status_state, fetched, sleeps, jresult,
    \* JobError(resp): the payload it is built from and its attributes
    err_resp, job_error,
    \* the four waiters: which one runs, its arguments, the remote resource's
    \* successive payloads, its locals, and what the caller has observed
    waiter, entry, wait_finish, end_state, remote,
    wpc, wresp, status, is_complete, polls, naps, wresult,
    \* one call of a BigqueryUtility method: the method, the argument its
    \* assertions look at, its position, the remote calls it has issued and
    \* what the caller got; poll_resp_list's input, loop index and output
    method, arg, dry_run, mpc, rcalls, moutcome,
    response_list, ri, return_list,
    \* the remote calls a method has issued, in order, with their HTTP status,
    \* and the overwrite_existing argument of write_view;
    \* the result pages of a query job, the last getQueryResults response and
    \* the rows collected from them
    rlog, overwrite_existing, result_pages, query_resp, qresults,
    \* a chunked transfer of GcsUtility
    transfer, self_max_retries, chunks_left, progressless_iters, attempts,
    csleeps, coutcome,
    \* the eager lister of gwrappy.iterator
    epc, eresp, object_list,
    \* a listing over every zone of ComputeEngineUtility
    zones, zframes, zcur, zlog, zout,
    \* two invocations of the same function running interleaved: the function,
    \* and the frame (locals and observed calls and items) of each
    invocation, frames

argVars == <<pages, max_results, max_retries, filter_exp, break_condition, kwargs>>
genVars == <<pc, resp, idx, object_count, page_token>>
obsVars == <<calls, out, results, pulls>>
listVars == <<argVars, genVars, obsVars>>
pollVars == <<jpc, job_resp, status_state, fetched, sleeps, jresult>>
errVars == <<err_resp, job_error>>
waitArgs == <<waiter, entry, wait_finish, end_state, remote>>
waitVars == <<waiter, entry, wait_finish, end_state, remote,
              wpc, wresp, status, is_complete, polls, naps, wresult>>
tableVars == <<rlog, overwrite_existing>>
queryVars == <<result_pages, query_resp, qresults>>
callVars == <<method, arg, dry_run, mpc, rcalls, moutcome,
              response_list, ri, return_list, tableVars, queryVars>>
twoVars == <<invocation, frames>>
extVars == <<transfer, self_max_retries, chunks_left, progressless_iters, attempts,
             csleeps, coutcome, epc, eresp, object_list,
             zones, zframes, zcur, zlog, zout>>
restVars == <<errVars, waitVars, callVars, twoVars, extVars>>
vars == <<listVars, pollVars, restVars>>

\* ------------------------------------------------------- listing service
\* Items are opaque records; each gets a distinct identity in server order.
ItemId(p, i) == (p - 1) * (MaxItems + 1) + i
PageOf(x) == ((x - 1) \div (MaxItems + 1)) + 1

\* Continuation tokens are opaque cursors handed out by the server.
Token(p) == 100 + p

\* One page as the server stores it: whether the response carries the
\* object_name key, and how many items it lists under it.
PageShapes == {s \in [haskey : BOOLEAN, n : 0..MaxItems] : (~s.haskey) => s.n = 0}

RECURSIVE Chains(_)
Chains(n) == IF n = 0 THEN {<<>>}
             ELSE {Append(c, s) : c \in Chains(n - 1), s \in PageShapes}

RECURSIVE TotalOf(_)
TotalOf(ch) == IF ch = <<>> THEN 0 ELSE Head(ch).n + TotalOf(Tail(ch))

PageChains == {ch \in UNION {Chains(n) : n \in 1..MaxPages} : TotalOf(ch) <= MaxItems}

ItemsOfPage(ch, p) == [i \in 1..ch[p].n |-> ItemId(p, i)]

IdsOf(ch) == {ItemId(p, i) : p \in 1..MaxPages, i \in 1..MaxItems} \cap
             UNION {{ItemId(p, i) : i \in 1..ch[p].n} : p \in 1..Len(ch)}

\* The response dictionary of service.list(...).execute() for one page.
Response(p) ==
    [haskey |-> pages[p].haskey,
     items |-> ItemsOfPage(pages, p),
     nextPageToken |-> IF p < Len(pages) THEN Token(p + 1) ELSE NoToken]

\* The page the server returns for a request's pageToken.
ServedPage(tok) == IF tok = NoToken THEN 1 ELSE tok - 100

NoResp == [haskey |-> FALSE, items |-> <<>>, nextPageToken |-> NoToken]

\* The fixed request parameters (**kwargs) and max_retries of one listing.
CallArgs == {[kwargs |-> "kwA", max_retries |-> 3],
             [kwargs |-> "kwB", max_retries |-> 0]}

\* A predicate argument: None, or a function of the item (the set it is
\* true on).
Predicates(ids) == {[isNone |-> TRUE, on |-> {}]} \cup
                   {[isNone |-> FALSE, on |-> S] : S \in SUBSET ids}

\* ------------------------------------------------------------- Init
\* ------------------------------------------------------------ BigQuery jobs
JobStates == {"PENDING", "RUNNING", "DONE"}

\* A job resource as jobs().get returns it: status.state, whether
\* status.errorResult and status.errors are present, and ver, which tells the
\* payloads of one wait apart (0 is the job_resp the caller passed in).
JobPayloads(v) == [ver : {v}, state : JobStates,
                   errorResult : BOOLEAN, errors : BOOLEAN]

NoResult == [kind |-> "none", payload |-> [ver |-> 0, state |-> "PENDING",
                                           errorResult |-> FALSE, errors |-> FALSE]]

\* No wait is in progress.
IdlePoll ==
    /\ jpc = "idle"
    /\ job_resp = NoResult.payload
    /\ status_state = "None"
    /\ fetched = <<>>
    /\ sleeps = 0
    /\ jresult = NoResult

\* poll_job_status(job_resp, sleep_time) has been entered (line 226).
InitPoll ==
    /\ jpc = "loop"
    /\ job_resp \in JobPayloads(0)
    /\ status_state = "None"
    /\ fetched = <<>>
    /\ sleeps = 0
    /\ jresult = NoResult

\* iterate_list(...) has been called: the generator object exists, none of
\* its body has run.
InitList ==
    /\ pages \in PageChains
    /\ max_results \in {NoCap} \cup (0..MaxCap)
    /\ \E a \in CallArgs : kwargs = a.kwargs /\ max_retries = a.max_retries
    /\ filter_exp \in Predicates(IdsOf(pages))
    /\ break_condition \in Predicates(IdsOf(pages))
    /\ pc = "created"
    /\ resp = NoResp
    /\ idx = 1
    /\ object_count = 0
    /\ page_token = NoToken
    /\ calls = <<>>
    /\ out = <<>>
    /\ results = <<>>
    /\ pulls = 0

\* No listing is in progress.
IdleList ==
    /\ pages = <<[haskey |-> FALSE, n |-> 0]>>
    /\ max_results = NoCap
    /\ max_retries = 3
    /\ kwargs = "kwA"
    /\ filter_exp = [isNone |-> TRUE, on |-> {}]
    /\ break_condition = [isNone |-> TRUE, on |-> {}]
    /\ pc = "idle"
    /\ resp = NoResp
    /\ idx = 1
    /\ object_count = 0
    /\ page_token = NoToken
    /\ calls = <<>>
    /\ out = <<>>
    /\ results = <<>>
    /\ pulls = 0

\* ------------------------------------------------------------- JobError
Absent == "absent"   \* a key the dictionary does not have

\* status.errorResult of an errored job: each of message, reason and location
\* is a string or missing.
ErrorResults == [message : {Absent, "m1", "m2"},
                 reason : {Absent, "r1", "r2"},
                 location : {Absent, "l1", "l2"}]

\* The terminal payload of an errored job: its id, status.errorResult and
\* status.errors (missing, empty, or a list of sub-errors).
ErroredPayloads == [id : {"job1", "job2"},
                    errorResult : ErrorResults,
                    errors : {Absent, "[]", "[e1]", "[e1,e2]"}]

NoJobError == [id |-> Absent, message |-> Absent, reason |-> Absent,
               location |-> Absent, errors |-> Absent]

\* No JobError is being built.
IdleErr ==
    /\ err_resp = [id |-> "job1",
                   errorResult |-> [message |-> Absent, reason |-> Absent,
                                    location |-> Absent],
                   errors |-> Absent]
    /\ job_error = NoJobError

\* ------------------------------------------------------------- waiters
MaxScript == 3                 \* longest sequence of payloads a resource goes through
MaxFetches == MaxScript + 1    \* polls and naps are counted up to here

\* One status payload. state is status.state (BigQuery job, Dataproc job),
\* status (Compute operation) or metadata.status.state (Dataproc operation);
\* done is the Dataproc operation's done flag; errorResult says whether the
\* BigQuery job's status has an errorResult.
NoPayload == [state |-> "None", done |-> FALSE, errorResult |-> FALSE]

BqPayloads == [state : {"RUNNING", "DONE"}, done : {FALSE}, errorResult : BOOLEAN]
ComputePayloads == [state : {"PENDING", "RUNNING", "DONE"}, done : {FALSE},
                    errorResult : {FALSE}]
OperationPayloads == [state : {"RUNNING", "DONE"}, done : BOOLEAN, errorResult : {FALSE}]
DataprocJobPayloads == [state : {"RUNNING", "DONE", "ERROR", "CANCELLED"},
                        done : {FALSE}, errorResult : {FALSE}]

\* The payloads the resource shows to successive fetches; it stays at the
\* last one.
Scripts(P) == UNION {[1..n -> P] : n \in 1..MaxScript}

NoOutcome == [kind |-> "none", payload |-> NoPayload]

\* No wait is in progress.
IdleWait ==
    /\ waiter = "none"
    /\ entry = "direct"
    /\ wait_finish = TRUE
    /\ end_state = "DONE"
    /\ remote = <<NoPayload>>
    /\ wpc = "idle"
    /\ wresp = NoPayload
    /\ status = "None"
    /\ is_complete = FALSE
    /\ polls = 0
    /\ naps = 0
    /\ wresult = NoOutcome

\* ------------------------------------------------------- method calls
MaxRefs == 3     \* longest response_list given to poll_resp_list

NoCall == [kind |-> "none"]

\* No BigqueryUtility method is running.
IdleCalls ==
    /\ method = "none"
    /\ arg = "None"
    /\ dry_run = FALSE
    /\ mpc = "idle"
    /\ rcalls = 0
    /\ moutcome = NoCall
    /\ response_list = <<>>
    /\ ri = 1
    /\ return_list = <<>>
    /\ rlog = <<>>
    /\ overwrite_existing = TRUE
    /\ result_pages = <<[haskey |-> FALSE, n |-> 0]>>
    /\ query_resp = [isNone |-> TRUE, pageToken |-> NoToken]
    /\ qresults = <<>>

\* No pair of invocations is running.
IdleTwo ==
    /\ invocation = "none"
    /\ frames = <<>>

\* No chunked transfer, no eager listing and no zone listing is running.
IdleExt ==
    /\ transfer = "none"
    /\ self_max_retries = 3
    /\ chunks_left = 0
    /\ progressless_iters = 0
    /\ attempts = <<>>
    /\ csleeps = 0
    /\ coutcome = "none"
    /\ epc = "idle"
    /\ eresp = NoResp
    /\ object_list = <<>>
    /\ zones = 0
    /\ zframes = <<>>
    /\ zcur = 1
    /\ zlog = <<>>
    /\ zout = <<>>

IdleRest == IdleErr /\ IdleWait /\ IdleCalls /\ IdleTwo /\ IdleExt

Init == InitList /\ IdlePoll /\ IdleRest

\* ------------------------------------------------- iterate_list, by line
\* The generator is suspended (or finished) and control is with the consumer.
Finished == pc \in {"done", "raised"}

\* line 24: filter_exp is not None and not filter_exp(x)
FilterRejects(x) == (~filter_exp.isNone) /\ x \notin filter_exp.on

CapReachedLate == max_results # NoCap /\ object_count > max_results

\* lines 28, 53: max_results is not None and object_count >= max_results
CapReached == max_results # NoCap /\ object_count >= max_results

\* lines 33, 57: break_condition is not None and break_condition(x)
BreakHolds(x) == (~break_condition.isNone) /\ x \in break_condition.on

PopTokenForgotten(r) == r

\* lines 29, 34, 54, 58: resp.pop('nextPageToken', None)
PopToken(r) == [r EXCEPT !.nextPageToken = NoToken]

\* lines 22, 48: object_name in resp
HasKey(r) == r.haskey

HasNextPageIfItems(r) == r.nextPageToken # NoToken /\ r.items # <<>>

\* line 40: 'nextPageToken' in resp
HasNextPage(r) == r.nextPageToken # NoToken

AtFirstListEager == pc \in {"created", "list1"}

\* line 18: the generator body starts only on the first next().
AtFirstList == pc = "list1"

PullRestarts ==
    /\ \/ /\ pc = "created"
          /\ pc' = "list1"
          /\ UNCHANGED results
       \/ /\ pc = "yield"
          /\ pc' = "for"
          /\ UNCHANGED results
       \/ /\ Finished
          /\ Len(SelectSeq(results, LAMBDA r : r = "StopIteration")) <= MaxExtraPulls
          /\ results' = Append(results, "StopIteration")
          /\ pc' = "list1"
    /\ pulls' = pulls + 1
    /\ UNCHANGED <<argVars, resp, idx, object_count, page_token, calls, out, pollVars, restVars>>

\* The consumer calls next() on the generator.
Pull ==
    /\ \/ /\ pc = "created"
          /\ pc' = "list1"
          /\ UNCHANGED results
       \/ /\ pc = "yield"
          /\ pc' = "for"
          /\ UNCHANGED results
       \/ /\ Finished
          /\ Len(SelectSeq(results, LAMBDA r : r = "StopIteration")) <= MaxExtraPulls
          /\ results' = Append(results, "StopIteration")
          /\ UNCHANGED pc
    /\ pulls' = pulls + 1
    /\ UNCHANGED <<argVars, resp, idx, object_count, page_token, calls, out, pollVars, restVars>>

ListCallSwallow(tok) ==
    \/ /\ calls' = Append(calls, [pageToken |-> tok, kwargs |-> kwargs,
                                  num_retries |-> max_retries, ok |-> TRUE])
       /\ resp' = Response(ServedPage(tok))
       /\ idx' = 1
       /\ pc' = "for"
       /\ UNCHANGED results
    \/ /\ calls' = Append(calls, [pageToken |-> tok, kwargs |-> kwargs,
                                  num_retries |-> max_retries, ok |-> FALSE])
       /\ pc' = "done"
       /\ results' = Append(results, "StopIteration")
       /\ UNCHANGED <<resp, idx>>

\* One service.list(...).execute(num_retries=max_retries) with the given
\* pageToken: the response arrives, or the transport error is raised in the
\* generator and so out of the consumer's next().
ListCall(tok) ==
    \/ /\ calls' = Append(calls, [pageToken |-> tok, kwargs |-> kwargs,
                                  num_retries |-> max_retries, ok |-> TRUE])
       /\ resp' = Response(ServedPage(tok))
       /\ idx' = 1
       /\ pc' = "for"
       /\ UNCHANGED results
    \/ /\ calls' = Append(calls, [pageToken |-> tok, kwargs |-> kwargs,
                                  num_retries |-> max_retries, ok |-> FALSE])
       /\ pc' = "raised"
       /\ results' = Append(results, "HttpError")
       /\ UNCHANGED <<resp, idx>>

\* lines 18-20
ListFirst ==
    /\ AtFirstList
    /\ ListCall(NoToken)
    /\ UNCHANGED <<argVars, object_count, page_token, out, pulls, pollVars, restVars>>

ListNextNoToken ==
    /\ pc = "listN"
    /\ ListCall(NoToken)
    /\ UNCHANGED <<argVars, object_count, page_token, out, pulls, pollVars, restVars>>

\* lines 41-46
ListNext ==
    /\ pc = "listN"
    /\ ListCall(page_token)
    /\ UNCHANGED <<argVars, object_count, page_token, out, pulls, pollVars, restVars>>

ForStepCapFirst ==
    /\ pc = "for"
    /\ IF (~HasKey(resp)) \/ idx > Len(resp.items)
       THEN /\ pc' = "while"
            /\ UNCHANGED <<resp, idx, object_count, out, results>>
       ELSE LET x == resp.items[idx] IN
            IF CapReached
            THEN /\ resp' = PopToken(resp)
                 /\ pc' = "while"
                 /\ UNCHANGED <<idx, object_count, out, results>>
            ELSE IF FilterRejects(x)
            THEN /\ idx' = idx + 1
                 /\ UNCHANGED <<pc, resp, object_count, out, results>>
            ELSE IF BreakHolds(x)
            THEN /\ resp' = PopToken(resp)
                 /\ pc' = "while"
                 /\ UNCHANGED <<idx, object_count, out, results>>
            ELSE /\ object_count' = object_count + 1
                 /\ out' = Append(out, x)
                 /\ results' = Append(results, "item")
                 /\ idx' = idx + 1
                 /\ pc' = "yield"
                 /\ UNCHANGED resp
    /\ UNCHANGED <<argVars, page_token, calls, pulls, pollVars, restVars>>

ForStepKeyError ==
    /\ pc = "for"
    /\ IF ~HasKey(resp)
       THEN /\ pc' = "raised"
            /\ results' = Append(results, "KeyError")
            /\ UNCHANGED <<resp, idx, object_count, out>>
       ELSE IF idx > Len(resp.items)
       THEN /\ pc' = "while"
            /\ UNCHANGED <<resp, idx, object_count, out, results>>
       ELSE LET x == resp.items[idx] IN
            IF FilterRejects(x)
            THEN /\ idx' = idx + 1
                 /\ UNCHANGED <<pc, resp, object_count, out, results>>
            ELSE IF CapReached \/ BreakHolds(x)
            THEN /\ resp' = PopToken(resp)
                 /\ pc' = "while"
                 /\ UNCHANGED <<idx, object_count, out, results>>
            ELSE /\ object_count' = object_count + 1
                 /\ out' = Append(out, x)
                 /\ results' = Append(results, "item")
                 /\ idx' = idx + 1
                 /\ pc' = "yield"
                 /\ UNCHANGED resp
    /\ UNCHANGED <<argVars, page_token, calls, pulls, pollVars, restVars>>

\* lines 22-38 and 48-62: one turn of "for x in resp[object_name]".
ForStep ==
    /\ pc = "for"
    /\ IF (~HasKey(resp)) \/ idx > Len(resp.items)
       THEN /\ pc' = "while"
            /\ UNCHANGED <<resp, idx, object_count, out, results>>
       ELSE LET x == resp.items[idx] IN
            IF FilterRejects(x)
            THEN /\ idx' = idx + 1
                 /\ UNCHANGED <<pc, resp, object_count, out, results>>
            ELSE IF CapReached \/ BreakHolds(x)
            THEN /\ resp' = PopToken(resp)
                 /\ pc' = "while"
                 /\ UNCHANGED <<idx, object_count, out, results>>
            ELSE /\ object_count' = object_count + 1
                 /\ out' = Append(out, x)
                 /\ results' = Append(results, "item")
                 /\ idx' = idx + 1
                 /\ pc' = "yield"
                 /\ UNCHANGED resp
    /\ UNCHANGED <<argVars, page_token, calls, pulls, pollVars, restVars>>

\* lines 40-41: while 'nextPageToken' in resp; falling off the end of the
\* body raises StopIteration in the consumer's next().
While ==
    /\ pc = "while"
    /\ IF HasNextPage(resp)
       THEN /\ page_token' = resp.nextPageToken
            /\ pc' = "listN"
            /\ UNCHANGED results
       ELSE /\ pc' = "done"
            /\ results' = Append(results, "StopIteration")
            /\ UNCHANGED page_token
    /\ UNCHANGED <<argVars, resp, idx, object_count, calls, out, pulls, pollVars, restVars>>

GenNext == ListFirst \/ ListNext \/ ForStep \/ While

Next == Pull \/ GenNext

Spec == Init /\ [][Next]_vars

\* A listing whose filter_exp rejects every item.
InitReject == Init /\ (~filter_exp.isNone) /\ filter_exp.on = {}

\* The interpreter keeps running the generator's body once next() entered it.
LiveSpec == InitReject /\ [][Next]_vars /\ WF_vars(GenNext)


\* ------------------------------------------- poll_job_status, by line
\* line 228: while not status_state == 'DONE'
LoopTest ==
    /\ jpc = "loop"
    /\ jpc' = IF status_state # "DONE" THEN "get" ELSE "check"
    /\ UNCHANGED <<job_resp, status_state, fetched, sleeps, jresult, listVars, restVars>>

\* lines 229-234: job_resp = self.get_job(...); the server answers with the
\* job's current resource, or the transport error leaves poll_job_status.
GetJob ==
    /\ jpc = "get"
    /\ Len(fetched) < MaxPolls
    /\ \/ \E p \in JobPayloads(Len(fetched) + 1) :
             /\ fetched' = Append(fetched, p)
             /\ job_resp' = p
             /\ status_state' = p.state
             /\ jpc' = "sleep"
             /\ UNCHANGED jresult
       \/ /\ jresult' = [kind |-> "HttpError", payload |-> job_resp]
          /\ jpc' = "end"
          /\ UNCHANGED <<job_resp, status_state, fetched>>
    /\ UNCHANGED <<sleeps, listVars, restVars>>

\* line 235: sleep(sleep_time)
Sleep ==
    /\ jpc = "sleep"
    /\ sleeps' = sleeps + 1
    /\ jpc' = "loop"
    /\ UNCHANGED <<job_resp, status_state, fetched, jresult, listVars, restVars>>

HasErrors(p) == p.errors

\* line 237: 'errorResult' in job_resp['status']
HasErrorResult(p) == p.errorResult

\* lines 237-240: raise JobError(job_resp), or return job_resp
Finish ==
    /\ jpc = "check"
    /\ jresult' = [kind |-> IF HasErrorResult(job_resp) THEN "JobError" ELSE "returned",
                   payload |-> job_resp]
    /\ jpc' = "end"
    /\ UNCHANGED <<job_resp, status_state, fetched, sleeps, listVars, restVars>>

NextPoll == LoopTest \/ GetJob \/ Sleep \/ Finish

InitWait == InitPoll /\ IdleList /\ IdleRest

SpecPoll == InitWait /\ [][NextPoll]_vars


\* ------------------------------------------------ JobError.__init__
\* errors.py lines 11-13: error_result.get(key, None)
GetOrNone(v) == IF v = Absent THEN "None" ELSE v

\* errors.py line 14: resp['status'].get('errors', [])
GetOrEmptyList(v) == IF v = Absent THEN "[]" ELSE v

JobErrorOfSwapped(r) ==
    [id |-> r.id,
     message |-> GetOrNone(r.errorResult.reason),
     reason |-> GetOrNone(r.errorResult.message),
     location |-> GetOrNone(r.errorResult.location),
     errors |-> GetOrEmptyList(r.errors)]

\* errors.py lines 7-14
JobErrorOf(r) ==
    [id |-> r.id,
     message |-> GetOrNone(r.errorResult.message),
     reason |-> GetOrNone(r.errorResult.reason),
     location |-> GetOrNone(r.errorResult.location),
     errors |-> GetOrEmptyList(r.errors)]

\* poll_job_status has left its loop with a DONE payload that has
\* status.errorResult (bigquery.py line 237).
InitError ==
    /\ err_resp \in ErroredPayloads
    /\ job_error = NoJobError
    /\ IdleList
    /\ IdlePoll
    /\ IdleExt
    /\ IdleWait
    /\ IdleCalls
    /\ IdleTwo

\* bigquery.py line 238: raise JobError(job_resp)
RaiseJobError ==
    /\ job_error = NoJobError
    /\ job_error' = JobErrorOf(err_resp)
    /\ UNCHANGED <<err_resp, listVars, pollVars, waitVars, callVars, twoVars, extVars>>

NextError == RaiseJobError

SpecError == InitError /\ [][NextError]_vars


\* ------------------------------------------------------------- the waiters
\* The answer to the k-th status fetch.
Served(k) == remote[IF k <= Len(remote) THEN k ELSE Len(remote)]

\* Counting one more poll or nap.
Bump(c) == IF c < MaxFetches THEN c + 1 ELSE c

HttpError == [kind |-> "HttpError", payload |-> NoPayload]

\* The job resource jobs().submit() answers with.
SubmittedJob == [state |-> "PENDING", done |-> FALSE, errorResult |-> FALSE]

\* One of the waiters has been called; none of its body has run.
\*   poll_job_status(job_resp, sleep_time)                      bigquery.py 214
\*   poll_operation_status(..., end_state, sleep_time)           compute.py 257
\*   get_operation(name, wait_finish, sleep_time)               dataproc.py 101
\*   get_job(project_id, job_id, wait_finish, sleep_time)       dataproc.py 258
\*   submit_spark_job / submit_pyspark_job(..., wait_finish)    dataproc.py 288, 346
InitWaiters ==
    /\ \/ /\ waiter = "poll_job_status"
          /\ entry = "direct"
          /\ wait_finish = TRUE
          /\ end_state = "DONE"
          /\ remote \in Scripts(BqPayloads)
          /\ wresp \in BqPayloads
          /\ wpc = "test"
       \/ /\ waiter = "poll_operation_status"
          /\ entry = "direct"
          /\ wait_finish = TRUE
          /\ end_state \in {"RUNNING", "DONE"}
          /\ remote \in Scripts(ComputePayloads)
          /\ wresp = NoPayload
          /\ wpc = "test"
       \/ /\ waiter = "get_operation"
          /\ entry = "direct"
          /\ wait_finish \in BOOLEAN
          /\ end_state = "DONE"
          /\ remote \in Scripts(OperationPayloads)
          /\ wresp = NoPayload
          /\ wpc = "test"
       \/ /\ waiter = "get_job"
          /\ \/ entry = "direct" /\ wpc = "test"
             \/ entry \in {"submit_spark_job", "submit_pyspark_job"} /\ wpc = "submit"
          /\ wait_finish \in BOOLEAN
          /\ end_state = "DONE"
          /\ remote \in Scripts(DataprocJobPayloads)
          /\ wresp = NoPayload
    /\ status = "None"
    /\ is_complete = FALSE
    /\ polls = 0
    /\ naps = 0
    /\ wresult = NoOutcome
    /\ IdleList
    /\ IdlePoll
    /\ IdleExt
    /\ IdleErr
    /\ IdleCalls
    /\ IdleTwo

\* --- BigqueryUtility.poll_job_status
PollJobStatusTestErrorResult ==
    /\ waiter = "poll_job_status"
    /\ wpc = "test"
    /\ wpc' = IF ~(status = "DONE") /\ ~wresp.errorResult THEN "get" ELSE "check"
    /\ UNCHANGED <<waitArgs, wresp, status, is_complete, polls, naps, wresult>>
    /\ UNCHANGED <<listVars, pollVars, errVars, callVars, twoVars, extVars>>

\* bigquery.py line 228: while not status_state == 'DONE'
PollJobStatusTest ==
    /\ waiter = "poll_job_status"
    /\ wpc = "test"
    /\ wpc' = IF ~(status = "DONE") THEN "get" ELSE "check"
    /\ UNCHANGED <<waitArgs, wresp, status, is_complete, polls, naps, wresult>>
    /\ UNCHANGED <<listVars, pollVars, errVars, callVars, twoVars, extVars>>

\* bigquery.py lines 229-234: job_resp = self.get_job(...);
\* status_state = job_resp['status']['state']
PollJobStatusGet ==
    /\ waiter = "poll_job_status"
    /\ wpc = "get"
    /\ \/ /\ wresp' = Served(polls + 1)
          /\ status' = wresp'.state
          /\ polls' = Bump(polls)
          /\ wpc' = "sleep"
          /\ UNCHANGED wresult
       \/ /\ wresult' = HttpError
          /\ wpc' = "end"
          /\ UNCHANGED <<wresp, status, polls>>
    /\ UNCHANGED <<waitArgs, is_complete, naps>>
    /\ UNCHANGED <<listVars, pollVars, errVars, callVars, twoVars, extVars>>

\* bigquery.py line 235: sleep(sleep_time)
PollJobStatusSleep ==
    /\ waiter = "poll_job_status"
    /\ wpc = "sleep"
    /\ naps' = Bump(naps)
    /\ wpc' = "test"
    /\ UNCHANGED <<waitArgs, wresp, status, is_complete, polls, wresult>>
    /\ UNCHANGED <<listVars, pollVars, errVars, callVars, twoVars, extVars>>

\* bigquery.py lines 237-240: raise JobError(job_resp), or return job_resp
PollJobStatusFinish ==
    /\ waiter = "poll_job_status"
    /\ wpc = "check"
    /\ wresult' = [kind |-> IF wresp.errorResult THEN "JobError" ELSE "returned",
                   payload |-> wresp]
    /\ wpc' = "end"
    /\ UNCHANGED <<waitArgs, wresp, status, is_complete, polls, naps>>
    /\ UNCHANGED <<listVars, pollVars, errVars, callVars, twoVars, extVars>>

\* --- ComputeEngineUtility.poll_operation_status
\* compute.py line 272: while status != end_state
PollOperationStatusTest ==
    /\ waiter = "poll_operation_status"
    /\ wpc = "test"
    /\ wpc' = IF status # end_state THEN "get" ELSE "return"
    /\ UNCHANGED <<waitArgs, wresp, status, is_complete, polls, naps, wresult>>
    /\ UNCHANGED <<listVars, pollVars, errVars, callVars, twoVars, extVars>>

\* compute.py lines 273-279: resp = self.get_operation(...); status = resp['status']
PollOperationStatusGet ==
    /\ waiter = "poll_operation_status"
    /\ wpc = "get"
    /\ \/ /\ wresp' = Served(polls + 1)
          /\ status' = wresp'.state
          /\ polls' = Bump(polls)
          /\ wpc' = "sleep"
          /\ UNCHANGED wresult
       \/ /\ wresult' = HttpError
          /\ wpc' = "end"
          /\ UNCHANGED <<wresp, status, polls>>
    /\ UNCHANGED <<waitArgs, is_complete, naps>>
    /\ UNCHANGED <<listVars, pollVars, errVars, callVars, twoVars, extVars>>

\* compute.py line 280: sleep(sleep_time)
PollOperationStatusSleep ==
    /\ waiter = "poll_operation_status"
    /\ wpc = "sleep"
    /\ naps' = Bump(naps)
    /\ wpc' = "test"
    /\ UNCHANGED <<waitArgs, wresp, status, is_complete, polls, wresult>>
    /\ UNCHANGED <<listVars, pollVars, errVars, callVars, twoVars, extVars>>

\* compute.py line 282: return resp
PollOperationStatusReturn ==
    /\ waiter = "poll_operation_status"
    /\ wpc = "return"
    /\ wresult' = [kind |-> "returned", payload |-> wresp]
    /\ wpc' = "end"
    /\ UNCHANGED <<waitArgs, wresp, status, is_complete, polls, naps>>
    /\ UNCHANGED <<listVars, pollVars, errVars, callVars, twoVars, extVars>>

\* --- DataprocUtility.get_operation
\* dataproc.py line 114: while not is_complete
GetOperationTest ==
    /\ waiter = "get_operation"
    /\ wpc = "test"
    /\ wpc' = IF ~is_complete THEN "get" ELSE "return"
    /\ UNCHANGED <<waitArgs, wresp, status, is_complete, polls, naps, wresult>>
    /\ UNCHANGED <<listVars, pollVars, errVars, callVars, twoVars, extVars>>

\* dataproc.py lines 120-121
OperationCompleteStateOnly(p) == p.state = "DONE"

\* dataproc.py lines 120-121: operation_resp.get('done', False) or
\* operation_resp['metadata']['status']['state'] == 'DONE'
OperationComplete(p) == p.done \/ p.state = "DONE"

GetOperationGetCaught ==
    /\ waiter = "get_operation"
    /\ wpc = "get"
    /\ \/ /\ wresp' = Served(polls + 1)
          /\ polls' = Bump(polls)
          /\ is_complete' = IF wait_finish THEN OperationComplete(wresp') ELSE TRUE
          /\ wpc' = IF wait_finish /\ ~is_complete' THEN "sleep" ELSE "test"
          /\ UNCHANGED wresult
       \/ /\ wresult' = HttpError
          /\ wpc' = "sleep"
          /\ UNCHANGED <<wresp, is_complete, polls>>
    /\ UNCHANGED <<waitArgs, status, naps>>
    /\ UNCHANGED <<listVars, pollVars, errVars, callVars, twoVars, extVars>>

\* dataproc.py lines 115-126: the fetch, then is_complete by wait_finish
GetOperationGet ==
    /\ waiter = "get_operation"
    /\ wpc = "get"
    /\ \/ /\ wresp' = Served(polls + 1)
          /\ polls' = Bump(polls)
          /\ is_complete' = IF wait_finish THEN OperationComplete(wresp') ELSE TRUE
          /\ wpc' = IF wait_finish /\ ~is_complete' THEN "sleep" ELSE "test"
          /\ UNCHANGED wresult
       \/ /\ wresult' = HttpError
          /\ wpc' = "end"
          /\ UNCHANGED <<wresp, is_complete, polls>>
    /\ UNCHANGED <<waitArgs, status, naps>>
    /\ UNCHANGED <<listVars, pollVars, errVars, callVars, twoVars, extVars>>

\* dataproc.py lines 123-124: if not is_complete: sleep(sleep_time)
GetOperationSleep ==
    /\ waiter = "get_operation"
    /\ wpc = "sleep"
    /\ naps' = Bump(naps)
    /\ wpc' = "test"
    /\ UNCHANGED <<waitArgs, wresp, status, is_complete, polls, wresult>>
    /\ UNCHANGED <<listVars, pollVars, errVars, callVars, twoVars, extVars>>

\* dataproc.py line 128: return operation_resp
GetOperationReturn ==
    /\ waiter = "get_operation"
    /\ wpc = "return"
    /\ wresult' = [kind |-> "returned", payload |-> wresp]
    /\ wpc' = "end"
    /\ UNCHANGED <<waitArgs, wresp, status, is_complete, polls, naps>>
    /\ UNCHANGED <<listVars, pollVars, errVars, callVars, twoVars, extVars>>

\* --- DataprocUtility.submit_spark_job / submit_pyspark_job
\* dataproc.py lines 330-344 and 391-404: jobs().submit(...), then
\* self.get_job(..., wait_finish=True) if wait_finish, else the submitted job
SubmitJob ==
    /\ waiter = "get_job"
    /\ wpc = "submit"
    /\ \/ /\ wresp' = SubmittedJob
          /\ IF wait_finish
                THEN wpc' = "test" /\ UNCHANGED wresult
                ELSE /\ wresult' = [kind |-> "returned", payload |-> SubmittedJob]
                     /\ wpc' = "end"
       \/ /\ wresult' = HttpError
          /\ wpc' = "end"
          /\ UNCHANGED wresp
    /\ UNCHANGED <<waitArgs, status, is_complete, polls, naps>>
    /\ UNCHANGED <<listVars, pollVars, errVars, callVars, twoVars, extVars>>

\* --- DataprocUtility.get_job
\* dataproc.py line 272: while not is_complete
DataprocGetJobTest ==
    /\ waiter = "get_job"
    /\ wpc = "test"
    /\ wpc' = IF ~is_complete THEN "get" ELSE "return"
    /\ UNCHANGED <<waitArgs, wresp, status, is_complete, polls, naps, wresult>>
    /\ UNCHANGED <<listVars, pollVars, errVars, callVars, twoVars, extVars>>

\* dataproc.py line 280: job_resp['status']['state'] == 'DONE'
JobComplete(p) == p.state = "DONE"

\* dataproc.py lines 273-284: the fetch, then is_complete by wait_finish
DataprocGetJobGet ==
    /\ waiter = "get_job"
    /\ wpc = "get"
    /\ \/ /\ wresp' = Served(polls + 1)
          /\ polls' = Bump(polls)
          /\ is_complete' = IF wait_finish THEN JobComplete(wresp') ELSE TRUE
          /\ wpc' = IF wait_finish /\ ~is_complete' THEN "sleep" ELSE "test"
          /\ UNCHANGED wresult
       \/ /\ wresult' = HttpError
          /\ wpc' = "end"
          /\ UNCHANGED <<wresp, is_complete, polls>>
    /\ UNCHANGED <<waitArgs, status, naps>>
    /\ UNCHANGED <<listVars, pollVars, errVars, callVars, twoVars, extVars>>

\* dataproc.py lines 281-282: if not is_complete: sleep(sleep_time)
DataprocGetJobSleep ==
    /\ waiter = "get_job"
    /\ wpc = "sleep"
    /\ naps' = Bump(naps)
    /\ wpc' = "test"
    /\ UNCHANGED <<waitArgs, wresp, status, is_complete, polls, wresult>>
    /\ UNCHANGED <<listVars, pollVars, errVars, callVars, twoVars, extVars>>

\* dataproc.py line 286: return job_resp
DataprocGetJobReturn ==
    /\ waiter = "get_job"
    /\ wpc = "return"
    /\ wresult' = [kind |-> "returned", payload |-> wresp]
    /\ wpc' = "end"
    /\ UNCHANGED <<waitArgs, wresp, status, is_complete, polls, naps>>
    /\ UNCHANGED <<listVars, pollVars, errVars, callVars, twoVars, extVars>>

NextWaiters ==
    \/ PollJobStatusTest \/ PollJobStatusGet \/ PollJobStatusSleep \/ PollJobStatusFinish
    \/ PollOperationStatusTest \/ PollOperationStatusGet
    \/ PollOperationStatusSleep \/ PollOperationStatusReturn
    \/ GetOperationTest \/ GetOperationGet \/ GetOperationSleep \/ GetOperationReturn
    \/ SubmitJob
    \/ DataprocGetJobTest \/ DataprocGetJobGet \/ DataprocGetJobSleep \/ DataprocGetJobReturn

SpecWaiters == InitWaiters /\ [][NextWaiters]_vars

\* Every waiter is a sequential loop: it always takes its next step.
LiveWaiters == InitWaiters /\ [][NextWaiters]_vars /\ WF_vars(NextWaiters)


\* -------------------------------------------- BigqueryUtility method calls
\* The job resource jobs().query() / jobs().insert() answers with, or the
\* one a reference of response_list holds.
InsertedJob == [state |-> "RUNNING", done |-> FALSE, errorResult |-> FALSE]

\* The jobs the methods wait for: done at once, done after one running
\* payload, and done with an errorResult.
Jobs == {<<[state |-> "DONE", done |-> FALSE, errorResult |-> FALSE]>>,
         <<InsertedJob, [state |-> "DONE", done |-> FALSE, errorResult |-> FALSE]>>,
         <<[state |-> "DONE", done |-> FALSE, errorResult |-> TRUE]>>}

\* The elements of response_list: a dict or a JobResponse of a job, or
\* something else.
Refs == [type : {"dict", "JobResponse"}, job : Jobs]
            \cup {[type |-> "other", job |-> <<NoPayload>>]}

\* A BigqueryUtility method has been called with its arguments:
\*   sync_query(..., return_type, dry_run)          bigquery.py 329
\*   async_query(..., return_type)                  bigquery.py 366
\*   copy_table(source_data, ..., wait_finish)      bigquery.py 699
\*   update_table_info(..., schema)                 bigquery.py 907
\*   poll_resp_list(response_list)                  bigquery.py 970
InitCalls ==
    /\ \/ /\ method = "sync_query"
          /\ arg \in {"list", "dataframe", "json", "xml"}
          /\ dry_run \in BOOLEAN
          /\ wait_finish = TRUE
          /\ response_list = <<>>
          /\ mpc = "start"
       \/ /\ method = "async_query"
          /\ arg \in {"list", "dataframe", "json", "xml"}
          /\ dry_run = FALSE
          /\ wait_finish = TRUE
          /\ response_list = <<>>
          /\ mpc = "start"
       \/ /\ method = "copy_table"
          /\ arg \in {"dict", "dict_other_keys", "list_of_dicts",
                      "list_other_keys", "list_of_strings", "string"}
          /\ dry_run = FALSE
          /\ wait_finish \in BOOLEAN
          /\ response_list = <<>>
          /\ mpc = "start"
       \/ /\ method = "update_table_info"
          /\ arg \in {"None", "string", "list_of_strings",
                      "existing_fields", "unknown_field"}
          /\ dry_run = FALSE
          /\ wait_finish = TRUE
          /\ response_list = <<>>
          /\ mpc = "start"
       \/ /\ method = "poll_resp_list"
          /\ arg = "None"
          /\ dry_run = FALSE
          /\ wait_finish = TRUE
          /\ response_list \in UNION {[1..n -> Refs] : n \in 0..MaxRefs}
          /\ mpc = "loop"
    /\ rcalls = 0
    /\ moutcome = NoCall
    /\ ri = 1
    /\ return_list = <<>>
    /\ rlog = <<>>
    /\ overwrite_existing = TRUE
    /\ result_pages \in (IF method \in {"sync_query", "async_query"}
                          THEN PageChains
                          ELSE {<<[haskey |-> FALSE, n |-> 0]>>})
    /\ query_resp = [isNone |-> TRUE, pageToken |-> NoToken]
    /\ qresults = <<>>
    /\ waiter = "none"
    /\ entry = "direct"
    /\ end_state = "DONE"
    /\ remote \in (IF method = "poll_resp_list" THEN {<<NoPayload>>} ELSE Jobs)
    /\ wpc = "idle"
    /\ wresp = NoPayload
    /\ status = "None"
    /\ is_complete = FALSE
    /\ polls = 0
    /\ naps = 0
    /\ wresult = NoOutcome
    /\ IdleList
    /\ IdlePoll
    /\ IdleExt
    /\ IdleErr
    /\ IdleTwo

\* self.poll_job_status(job_resp, sleep_time) is entered for the job whose
\* payloads are script (bigquery.py line 226).
CallPollJobStatus(script) ==
    /\ waiter' = "poll_job_status"
    /\ remote' = script
    /\ wresp' = InsertedJob
    /\ wpc' = "test"
    /\ status' = "None"
    /\ polls' = 0
    /\ naps' = 0
    /\ wresult' = NoOutcome
    /\ UNCHANGED <<entry, wait_finish, end_state, is_complete>>

\* poll_job_status has ended: it returned, or raised JobError or HttpError.
PollEnded == mpc = "polling" /\ wpc = "end"

\* The remote calls of the wait that has just ended.
PollCalls == polls + (IF wresult = HttpError THEN 1 ELSE 0)

Raise(e) == moutcome' = [kind |-> e] /\ mpc' = "end"

\* bigquery.py lines 348-364: jobs().query(...).execute(), then the statistics
\* for a dry run, else self._iterate_job_results(...)
SyncQuery ==
    /\ method = "sync_query"
    /\ mpc = "start"
    /\ rcalls' = rcalls + 1
    /\ \/ IF dry_run THEN Raise("returned")
                     ELSE mpc' = "iterate" /\ UNCHANGED moutcome
       \/ Raise("HttpError")
    /\ UNCHANGED <<method, arg, dry_run, response_list, ri, return_list, tableVars, queryVars>>
    /\ UNCHANGED <<listVars, pollVars, errVars, waitVars, twoVars, extVars>>

\* bigquery.py lines 400-428: jobs().insert(...).execute(), then
\* self._iterate_job_results(...)
AsyncQuery ==
    /\ method = "async_query"
    /\ mpc = "start"
    /\ rcalls' = rcalls + 1
    /\ \/ mpc' = "iterate" /\ UNCHANGED moutcome
       \/ Raise("HttpError")
    /\ UNCHANGED <<method, arg, dry_run, response_list, ri, return_list, tableVars, queryVars>>
    /\ UNCHANGED <<listVars, pollVars, errVars, waitVars, twoVars, extVars>>

\* bigquery.py lines 243-245: assert return_type in ('list', 'dataframe',
\* 'json'); job_resp = self.poll_job_status(job_resp, sleep_time)
IterateJobResultsEnter ==
    /\ mpc = "iterate"
    /\ IF arg \in {"list", "dataframe", "json"}
          THEN /\ CallPollJobStatus(remote)
               /\ mpc' = "polling"
               /\ UNCHANGED moutcome
          ELSE /\ Raise("AssertionError")
               /\ UNCHANGED waitVars
    /\ UNCHANGED <<method, arg, dry_run, rcalls, response_list, ri, return_list, tableVars, queryVars>>
    /\ UNCHANGED <<listVars, pollVars, errVars, twoVars, extVars>>

\* The header row of column names (bigquery.py line 259); the rows are
\* numbered from 1.
Header == 0

\* bigquery.py lines 258-259: the header row is added for every page
IterateJobResultsFetchHeaderEachPage ==
    /\ method \in {"sync_query", "async_query"}
    /\ \/ /\ PollEnded
          /\ wresult.kind # "returned"
          /\ rcalls' = rcalls + PollCalls
          /\ Raise(wresult.kind)
          /\ UNCHANGED <<rlog, queryVars>>
       \/ /\ (PollEnded /\ wresult.kind = "returned") \/ mpc = "results"
          /\ query_resp.isNone \/ query_resp.pageToken # NoToken
          /\ LET token == IF query_resp.isNone THEN NoToken
                                                    ELSE query_resp.pageToken
                 p == ServedPage(token)
             IN  \E st \in {200, 500} :
                    /\ rlog' = Append(rlog, [call |-> "jobs.getQueryResults",
                                             status |-> st, type |-> "None"])
                    /\ rcalls' = rcalls + 1 + (IF mpc = "polling" THEN PollCalls ELSE 0)
                    /\ IF st = 200
                          THEN /\ query_resp' =
                                     [isNone |-> FALSE,
                                      pageToken |-> IF p < Len(result_pages)
                                                      THEN Token(p + 1) ELSE NoToken]
                               /\ qresults' =
                                     Append(qresults, Header)
                                     \o (IF result_pages[p].haskey
                                            THEN ItemsOfPage(result_pages, p) ELSE <<>>)
                               /\ mpc' = "results"
                               /\ UNCHANGED moutcome
                          ELSE /\ Raise("HttpError")
                               /\ UNCHANGED <<query_resp, qresults>>
          /\ UNCHANGED result_pages
    /\ UNCHANGED <<method, arg, dry_run, response_list, ri, return_list,
                   overwrite_existing>>
    /\ UNCHANGED <<listVars, pollVars, errVars, waitVars, twoVars, extVars>>

\* bigquery.py lines 245-266: the error of poll_job_status leaves the
\* method; else one turn of 'while query_resp is None or 'pageToken' in
\* query_resp': self._get_query_results(job_resp, page_token), the header
\* row if page_token is None, the rows of the page, sleep(sleep_time)
IterateJobResultsFetch ==
    /\ method \in {"sync_query", "async_query"}
    /\ \/ /\ PollEnded
          /\ wresult.kind # "returned"
          /\ rcalls' = rcalls + PollCalls
          /\ Raise(wresult.kind)
          /\ UNCHANGED <<rlog, queryVars>>
       \/ /\ (PollEnded /\ wresult.kind = "returned") \/ mpc = "results"
          /\ query_resp.isNone \/ query_resp.pageToken # NoToken
          /\ LET token == IF query_resp.isNone THEN NoToken
                                                    ELSE query_resp.pageToken
                 p == ServedPage(token)
             IN  \E st \in {200, 500} :
                    /\ rlog' = Append(rlog, [call |-> "jobs.getQueryResults",
                                             status |-> st, type |-> "None"])
                    /\ rcalls' = rcalls + 1 + (IF mpc = "polling" THEN PollCalls ELSE 0)
                    /\ IF st = 200
                          THEN /\ query_resp' =
                                     [isNone |-> FALSE,
                                      pageToken |-> IF p < Len(result_pages)
                                                      THEN Token(p + 1) ELSE NoToken]
                               /\ qresults' =
                                     (IF token = NoToken
                                         THEN Append(qresults, Header) ELSE qresults)
                                     \o (IF result_pages[p].haskey
                                            THEN ItemsOfPage(result_pages, p) ELSE <<>>)
                               /\ mpc' = "results"
                               /\ UNCHANGED moutcome
                          ELSE /\ Raise("HttpError")
                               /\ UNCHANGED <<query_resp, qresults>>
          /\ UNCHANGED result_pages
    /\ UNCHANGED <<method, arg, dry_run, response_list, ri, return_list,
                   overwrite_existing>>
    /\ UNCHANGED <<listVars, pollVars, errVars, waitVars, twoVars, extVars>>

\* bigquery.py lines 249, 268-273 (and the conversions after them): the
\* loop ends at a response without pageToken and the results are returned
IterateJobResultsReturn ==
    /\ method \in {"sync_query", "async_query"}
    /\ mpc = "results"
    /\ ~(query_resp.isNone \/ query_resp.pageToken # NoToken)
    /\ Raise("returned")
    /\ UNCHANGED <<method, arg, dry_run, rcalls, response_list, ri, return_list,
                   tableVars, queryVars>>
    /\ UNCHANGED <<listVars, pollVars, errVars, waitVars, twoVars, extVars>>

\* bigquery.py lines 721-729: the assertions on source_data
SourceDataAccepted(a) == a \in {"dict", "list_of_dicts"}

\* bigquery.py lines 721-755: the assertions on source_data, then
\* jobs().insert(...).execute(), then self.poll_job_status(...) if wait_finish
CopyTable ==
    /\ method = "copy_table"
    /\ mpc = "start"
    /\ IF SourceDataAccepted(arg)
          THEN /\ rcalls' = rcalls + 1
               /\ \/ IF wait_finish
                        THEN /\ CallPollJobStatus(remote)
                             /\ mpc' = "polling"
                             /\ UNCHANGED moutcome
                        ELSE /\ Raise("returned")
                             /\ UNCHANGED waitVars
                  \/ /\ Raise("HttpError")
                     /\ UNCHANGED waitVars
          ELSE /\ Raise("AssertionError")
               /\ UNCHANGED <<rcalls, waitVars>>
    /\ UNCHANGED <<method, arg, dry_run, response_list, ri, return_list, tableVars, queryVars>>
    /\ UNCHANGED <<listVars, pollVars, errVars, twoVars, extVars>>

\* bigquery.py lines 755-757: the error of poll_job_status leaves the method,
\* else return JobResponse(job_resp)
CopyTableReturn ==
    /\ method = "copy_table"
    /\ PollEnded
    /\ rcalls' = rcalls + PollCalls
    /\ Raise(wresult.kind)
    /\ UNCHANGED <<method, arg, dry_run, response_list, ri, return_list, tableVars, queryVars>>
    /\ UNCHANGED <<listVars, pollVars, errVars, waitVars, twoVars, extVars>>

\* bigquery.py lines 936-959: nothing for schema None; else the assertions
\* on the type of schema, self.get_table_info(...), and the assertion that
\* every field of schema is one of the table's fields
UpdateTableInfoSchema ==
    /\ method = "update_table_info"
    /\ mpc = "start"
    /\ IF arg = "None"
          THEN mpc' = "patch" /\ UNCHANGED <<rcalls, moutcome>>
          ELSE IF arg \in {"string", "list_of_strings"}
                  THEN Raise("AssertionError") /\ UNCHANGED rcalls
                  ELSE /\ rcalls' = rcalls + 1
                       /\ \/ IF arg = "existing_fields"
                                THEN mpc' = "patch" /\ UNCHANGED moutcome
                                ELSE Raise("AssertionError")
                          \/ Raise("HttpError")
    /\ UNCHANGED <<method, arg, dry_run, response_list, ri, return_list, tableVars, queryVars>>
    /\ UNCHANGED <<listVars, pollVars, errVars, waitVars, twoVars, extVars>>

\* bigquery.py lines 961-968: tables().patch(...).execute(),
\* return TableResponse(job_resp)
UpdateTableInfoPatch ==
    /\ method = "update_table_info"
    /\ mpc = "patch"
    /\ rcalls' = rcalls + 1
    /\ Raise("returned") \/ Raise("HttpError")
    /\ UNCHANGED <<method, arg, dry_run, response_list, ri, return_list, tableVars, queryVars>>
    /\ UNCHANGED <<listVars, pollVars, errVars, waitVars, twoVars, extVars>>

\* bigquery.py lines 988-995: the next response of response_list; a
\* JobResponse or a dict is polled with self.poll_job_status(...), anything
\* else fails the assertion of line 994, which line 997 does not catch
PollRespListNext ==
    /\ method = "poll_resp_list"
    /\ mpc = "loop"
    /\ ri <= Len(response_list)
    /\ IF response_list[ri].type \in {"JobResponse", "dict"}
          THEN /\ CallPollJobStatus(response_list[ri].job)
               /\ mpc' = "polling"
               /\ UNCHANGED moutcome
          ELSE /\ Raise("AssertionError")
               /\ UNCHANGED waitVars
    /\ UNCHANGED <<method, arg, dry_run, rcalls, response_list, ri, return_list, tableVars, queryVars>>
    /\ UNCHANGED <<listVars, pollVars, errVars, twoVars, extVars>>

\* bigquery.py line 997: except (JobError, HttpError) as e
Caught(kind) == kind \in {"JobError", "HttpError"}

PollRespListCollectUnordered ==
    /\ method = "poll_resp_list"
    /\ PollEnded
    /\ rcalls' = rcalls + PollCalls
    /\ IF wresult.kind = "returned" \/ Caught(wresult.kind)
          THEN /\ return_list' =
                     IF wresult.kind = "returned"
                     THEN Append(return_list,
                                 [kind |-> "JobResponse", payload |-> wresult.payload])
                     ELSE <<[kind |-> wresult.kind, payload |-> wresult.payload]>>
                              \o return_list
               /\ ri' = ri + 1
               /\ mpc' = "loop"
               /\ UNCHANGED moutcome
          ELSE /\ Raise(wresult.kind)
               /\ UNCHANGED <<ri, return_list>>
    /\ UNCHANGED <<method, arg, dry_run, response_list, tableVars, queryVars>>
    /\ UNCHANGED <<listVars, pollVars, errVars, waitVars, twoVars, extVars>>

PollRespListCollectRaise ==
    /\ method = "poll_resp_list"
    /\ PollEnded
    /\ rcalls' = rcalls + PollCalls
    /\ IF wresult.kind = "returned"
          THEN /\ return_list' =
                     Append(return_list,
                            [kind |-> "JobResponse", payload |-> wresult.payload])
               /\ ri' = ri + 1
               /\ mpc' = "loop"
               /\ UNCHANGED moutcome
          ELSE /\ Raise(wresult.kind)
               /\ UNCHANGED <<ri, return_list>>
    /\ UNCHANGED <<method, arg, dry_run, response_list, tableVars, queryVars>>
    /\ UNCHANGED <<listVars, pollVars, errVars, waitVars, twoVars, extVars>>

\* bigquery.py lines 992, 996 and 997-998:
\* return_list.append(JobResponse(resp, ...)) for the payload that
\* poll_job_status returned, return_list.append(e) for an error that line 997
\* catches; any other error leaves the method
PollRespListCollect ==
    /\ method = "poll_resp_list"
    /\ PollEnded
    /\ rcalls' = rcalls + PollCalls
    /\ IF wresult.kind = "returned" \/ Caught(wresult.kind)
          THEN /\ return_list' =
                     Append(return_list,
                            IF wresult.kind = "returned"
                            THEN [kind |-> "JobResponse", payload |-> wresult.payload]
                            ELSE [kind |-> wresult.kind, payload |-> wresult.payload])
               /\ ri' = ri + 1
               /\ mpc' = "loop"
               /\ UNCHANGED moutcome
          ELSE /\ Raise(wresult.kind)
               /\ UNCHANGED <<ri, return_list>>
    /\ UNCHANGED <<method, arg, dry_run, response_list, tableVars, queryVars>>
    /\ UNCHANGED <<listVars, pollVars, errVars, waitVars, twoVars, extVars>>

\* bigquery.py line 1000: return return_list
PollRespListReturn ==
    /\ method = "poll_resp_list"
    /\ mpc = "loop"
    /\ ri > Len(response_list)
    /\ Raise("returned")
    /\ UNCHANGED <<method, arg, dry_run, rcalls, response_list, ri, return_list, tableVars, queryVars>>
    /\ UNCHANGED <<listVars, pollVars, errVars, waitVars, twoVars, extVars>>

NextCalls ==
    \/ SyncQuery \/ AsyncQuery \/ IterateJobResultsEnter \/ IterateJobResultsFetch
    \/ IterateJobResultsReturn
    \/ CopyTable \/ CopyTableReturn
    \/ UpdateTableInfoSchema \/ UpdateTableInfoPatch
    \/ PollRespListNext \/ PollRespListCollect \/ PollRespListReturn
    \/ PollJobStatusTest \/ PollJobStatusGet \/ PollJobStatusSleep \/ PollJobStatusFinish

SpecCalls == InitCalls /\ [][NextCalls]_vars


\* ------------------------------------- BigqueryUtility table and job methods
\* The HTTP status of one remote call: success, not found, already exists,
\* server error.
Statuses == {200, 404, 409, 500}

\* A table method or a job method of BigqueryUtility has been called and has
\* not run yet; or a Dataproc get_operation / get_job has been called.
InitTables ==
    \/ /\ \/ /\ method \in {"write_view", "write_federated_table"}
             /\ arg = "None"
             /\ wait_finish = TRUE
             /\ overwrite_existing \in BOOLEAN
             /\ mpc = "start"
          \/ /\ method \in {"load_from_gcs", "export_to_gcs", "load_from_string"}
             /\ arg = "None"
             /\ wait_finish \in BOOLEAN
             /\ overwrite_existing = TRUE
             /\ mpc = "start"
          \/ /\ method = "write_table"
             /\ arg = "None"
             /\ wait_finish \in BOOLEAN
             /\ overwrite_existing = TRUE
             /\ mpc = "check"
          \/ /\ method = "copy_table"
             /\ arg \in {"dict", "list_of_dicts", "string"}
             /\ wait_finish \in BOOLEAN
             /\ overwrite_existing = TRUE
             /\ mpc = "start"
       /\ dry_run = FALSE
       /\ rcalls = 0
       /\ moutcome = NoCall
       /\ response_list = <<>>
       /\ ri = 1
       /\ return_list = <<>>
       /\ rlog = <<>>
       /\ result_pages = <<[haskey |-> FALSE, n |-> 0]>>
       /\ query_resp = [isNone |-> TRUE, pageToken |-> NoToken]
       /\ qresults = <<>>
       /\ waiter = "none"
       /\ entry = "direct"
       /\ end_state = "DONE"
       /\ remote \in Jobs
       /\ wpc = "idle"
       /\ wresp = NoPayload
       /\ status = "None"
       /\ is_complete = FALSE
       /\ polls = 0
       /\ naps = 0
       /\ wresult = NoOutcome
       /\ IdleList
       /\ IdlePoll
       /\ IdleExt
       /\ IdleErr
       /\ IdleTwo
    \/ /\ InitWaiters
       /\ waiter \in {"get_operation", "get_job"}

\* One remote call c has been executed and answered with status st; ty is
\* the 'type' of the table resource a successful tables().get returns.
Remote(c, st, ty) ==
    /\ rlog' = Append(rlog, [call |-> c, status |-> st, type |-> ty])
    /\ rcalls' = rcalls + 1

\* bigquery.py line 556: the handler deletes on every 409
TableInsertAlwaysOverwrites ==
    /\ method \in {"write_view", "write_federated_table"}
    /\ mpc = "start"
    /\ \E st \in Statuses :
          /\ Remote("tables.insert", st, "None")
          /\ IF st = 200
                THEN Raise("returned")
                ELSE IF st = 409
                        THEN mpc' = "delete" /\ UNCHANGED moutcome
                        ELSE Raise("HttpError")
    /\ UNCHANGED <<method, arg, dry_run, response_list, ri, return_list,
                   overwrite_existing, queryVars>>
    /\ UNCHANGED <<listVars, pollVars, errVars, waitVars, twoVars, extVars>>

\* bigquery.py lines 547-571 (write_view) and 881-905
\* (write_federated_table): the first tables().insert(...).execute(); an
\* HttpError with status 409 and overwrite_existing leads to
\* self.delete_table(...), any other HttpError is raised again
TableInsert ==
    /\ method \in {"write_view", "write_federated_table"}
    /\ mpc = "start"
    /\ \E st \in Statuses :
          /\ Remote("tables.insert", st, "None")
          /\ IF st = 200
                THEN Raise("returned")
                ELSE IF st = 409 /\ overwrite_existing
                        THEN mpc' = "delete" /\ UNCHANGED moutcome
                        ELSE Raise("HttpError")
    /\ UNCHANGED <<method, arg, dry_run, response_list, ri, return_list,
                   overwrite_existing, queryVars>>
    /\ UNCHANGED <<listVars, pollVars, errVars, waitVars, twoVars, extVars>>

\* bigquery.py lines 179-201 (delete_table) as called from lines 557-560,
\* 891-894 and 489-493: tables().delete(...).execute(), AssertionError for
\* a response that is not empty.  In write_view the call stands in the
\* except block and its HttpError leaves the method; in write_table it
\* stands in the try block of lines 483-495, whose handler passes on 404.
TableDelete ==
    /\ mpc = "delete"
    /\ \E st \in Statuses, empty \in BOOLEAN :
          /\ Remote("tables.delete", st, "None")
          /\ IF st = 200
                THEN IF empty
                        THEN /\ mpc' = IF method = "write_table"
                                          THEN "insert" ELSE "reinsert"
                             /\ UNCHANGED moutcome
                        ELSE Raise("AssertionError")
                ELSE IF method = "write_table" /\ st = 404
                        THEN mpc' = "insert" /\ UNCHANGED moutcome
                        ELSE Raise("HttpError")
    /\ UNCHANGED <<method, arg, dry_run, response_list, ri, return_list,
                   overwrite_existing, queryVars>>
    /\ UNCHANGED <<listVars, pollVars, errVars, waitVars, twoVars, extVars>>

\* bigquery.py lines 562-571 and 896-905: the second
\* tables().insert(...).execute(), outside any try; return TableResponse
TableReinsert ==
    /\ mpc = "reinsert"
    /\ \E st \in Statuses :
          /\ Remote("tables.insert", st, "None")
          /\ IF st = 200 THEN Raise("returned") ELSE Raise("HttpError")
    /\ UNCHANGED <<method, arg, dry_run, response_list, ri, return_list,
                   overwrite_existing, queryVars>>
    /\ UNCHANGED <<listVars, pollVars, errVars, waitVars, twoVars, extVars>>

\* bigquery.py line 489: an existing destination is deleted whatever its type
WriteTableCheckAnyType ==
    /\ method = "write_table"
    /\ mpc = "check"
    /\ \E st \in Statuses, ty \in {"TABLE", "VIEW"} :
          /\ Remote("tables.get", st, IF st = 200 THEN ty ELSE "None")
          /\ IF st = 200
                THEN mpc' = "delete" /\ UNCHANGED moutcome
                ELSE IF st = 404
                        THEN mpc' = "insert" /\ UNCHANGED moutcome
                        ELSE Raise("HttpError")
    /\ UNCHANGED <<method, arg, dry_run, response_list, ri, return_list,
                   overwrite_existing, queryVars>>
    /\ UNCHANGED <<listVars, pollVars, errVars, waitVars, twoVars, extVars>>

\* bigquery.py lines 483-495 (write_table): existing_table =
\* self.get_table_info(...); a VIEW is deleted; HttpError 404 is passed,
\* any other HttpError is raised again
WriteTableCheck ==
    /\ method = "write_table"
    /\ mpc = "check"
    /\ \E st \in Statuses, ty \in {"TABLE", "VIEW"} :
          /\ Remote("tables.get", st, IF st = 200 THEN ty ELSE "None")
          /\ IF st = 200
                THEN /\ mpc' = IF ty = "VIEW" THEN "delete" ELSE "insert"
                     /\ UNCHANGED moutcome
                ELSE IF st = 404
                        THEN mpc' = "insert" /\ UNCHANGED moutcome
                        ELSE Raise("HttpError")
    /\ UNCHANGED <<method, arg, dry_run, response_list, ri, return_list,
                   overwrite_existing, queryVars>>
    /\ UNCHANGED <<listVars, pollVars, errVars, waitVars, twoVars, extVars>>

\* bigquery.py lines 502, 637, 694, 827: the job is polled whatever
\* wait_finish is
InsertJobAlwaysWaits ==
    /\ \/ method = "write_table" /\ mpc = "insert"
       \/ method \in {"load_from_gcs", "export_to_gcs", "load_from_string"}
             /\ mpc = "start"
    /\ \E st \in Statuses :
          /\ Remote("jobs.insert", st, "None")
          /\ IF st = 200
                THEN /\ CallPollJobStatus(remote)
                     /\ mpc' = "polling"
                     /\ UNCHANGED moutcome
                ELSE /\ Raise("HttpError")
                     /\ UNCHANGED waitVars
    /\ UNCHANGED <<method, arg, dry_run, response_list, ri, return_list,
                   overwrite_existing, queryVars>>
    /\ UNCHANGED <<listVars, pollVars, errVars, twoVars, extVars>>

\* bigquery.py lines 497-502 (write_table), 632-640 (load_from_gcs),
\* 689-697 (export_to_gcs), 821-830 (load_from_string):
\* jobs().insert(...).execute(), then self.poll_job_status(...) if
\* wait_finish, else return JobResponse(job_resp)
InsertJob ==
    /\ \/ method = "write_table" /\ mpc = "insert"
       \/ method \in {"load_from_gcs", "export_to_gcs", "load_from_string"}
             /\ mpc = "start"
    /\ \E st \in Statuses :
          /\ Remote("jobs.insert", st, "None")
          /\ IF st = 200
                THEN IF wait_finish
                        THEN /\ CallPollJobStatus(remote)
                             /\ mpc' = "polling"
                             /\ UNCHANGED moutcome
                        ELSE /\ Raise("returned")
                             /\ UNCHANGED waitVars
                ELSE /\ Raise("HttpError")
                     /\ UNCHANGED waitVars
    /\ UNCHANGED <<method, arg, dry_run, response_list, ri, return_list,
                   overwrite_existing, queryVars>>
    /\ UNCHANGED <<listVars, pollVars, errVars, twoVars, extVars>>

\* bigquery.py lines 637-640, 694-697, 827-830: the error of
\* poll_job_status leaves the method, else return JobResponse(job_resp)
InsertJobReturn ==
    /\ method \in {"load_from_gcs", "export_to_gcs", "load_from_string"}
    /\ PollEnded
    /\ rcalls' = rcalls + PollCalls
    /\ Raise(wresult.kind)
    /\ UNCHANGED <<method, arg, dry_run, response_list, ri, return_list,
                   tableVars, queryVars>>
    /\ UNCHANGED <<listVars, pollVars, errVars, waitVars, twoVars, extVars>>

\* bigquery.py lines 502-512 (write_table): the error of poll_job_status
\* leaves the method, else self._get_query_results(job_resp, max_results=0)
\* for totalRows and return JobResponse(job_resp, 'write table')
WriteTableTotalRows ==
    /\ method = "write_table"
    /\ PollEnded
    /\ IF wresult.kind = "returned"
          THEN \E st \in {200, 500} :
                  /\ rlog' = Append(rlog, [call |-> "jobs.getQueryResults",
                                           status |-> st, type |-> "None"])
                  /\ rcalls' = rcalls + PollCalls + 1
                  /\ IF st = 200 THEN Raise("returned") ELSE Raise("HttpError")
          ELSE /\ rcalls' = rcalls + PollCalls
               /\ Raise(wresult.kind)
               /\ UNCHANGED rlog
    /\ UNCHANGED <<method, arg, dry_run, response_list, ri, return_list,
                   overwrite_existing, queryVars>>
    /\ UNCHANGED <<listVars, pollVars, errVars, waitVars, twoVars, extVars>>

NextTables ==
    \/ TableInsert \/ TableDelete \/ TableReinsert
    \/ WriteTableCheck \/ InsertJob \/ InsertJobReturn \/ WriteTableTotalRows
    \/ CopyTable \/ CopyTableReturn
    \/ PollJobStatusTest \/ PollJobStatusGet \/ PollJobStatusSleep \/ PollJobStatusFinish
    \/ GetOperationTest \/ GetOperationGet \/ GetOperationSleep \/ GetOperationReturn
    \/ SubmitJob
    \/ DataprocGetJobTest \/ DataprocGetJobGet \/ DataprocGetJobSleep \/ DataprocGetJobReturn

SpecTables == InitTables /\ [][NextTables]_vars


\* --------------------------------------- GcsUtility chunked transfers
MaxChunks == 2
MaxRetries == 2

\* storage.py lines 199-203 and 260-262: upload_object or download_object
\* has built its request; progressless_iters = 0 and no chunk has been moved.
InitChunks ==
    /\ transfer \in {"upload_object", "download_object"}
    /\ self_max_retries \in 0..MaxRetries
    /\ chunks_left \in 1..MaxChunks
    /\ progressless_iters = 0
    /\ attempts = <<>>
    /\ csleeps = 0
    /\ coutcome = "none"
    /\ epc = "idle"
    /\ eresp = NoResp
    /\ object_list = <<>>
    /\ zones = 0
    /\ zframes = <<>>
    /\ zcur = 1
    /\ zlog = <<>>
    /\ zout = <<>>
    /\ IdleList
    /\ IdlePoll
    /\ IdleErr
    /\ IdleWait
    /\ IdleCalls
    /\ IdleTwo

\* storage.py line 166: the error is raised once the counter reaches max_retries
NextChunkOneRetryShort ==
    /\ transfer \in {"upload_object", "download_object"}
    /\ coutcome = "none"
    /\ chunks_left > 0
    /\ \E r \in {"ok", "HttpError4xx", "HttpError5xx", "HttpLib2Error", "IOError"} :
          /\ attempts' = Append(attempts, r)
          /\ IF r = "ok"
                THEN /\ chunks_left' = chunks_left - 1
                     /\ progressless_iters' = 0
                     /\ coutcome' = IF chunks_left' = 0 THEN "returned" ELSE "none"
                     /\ UNCHANGED csleeps
                ELSE IF r = "HttpError4xx"
                THEN /\ coutcome' = "raised"
                     /\ UNCHANGED <<chunks_left, progressless_iters, csleeps>>
                ELSE /\ progressless_iters' = progressless_iters + 1
                     /\ IF progressless_iters' >= self_max_retries
                           THEN coutcome' = "raised" /\ UNCHANGED csleeps
                           ELSE coutcome' = "none" /\ csleeps' = csleeps + 1
                     /\ UNCHANGED chunks_left
    /\ UNCHANGED <<transfer, self_max_retries>>
    /\ UNCHANGED <<epc, eresp, object_list, zones, zframes, zcur, zlog, zout>>
    /\ UNCHANGED <<listVars, pollVars, errVars, waitVars, callVars, twoVars>>

\* storage.py lines 204-217 and 263-277 with _handle_progressless_iter
\* (165-173): one turn of the while loop.  next_chunk() moves a chunk or
\* raises; HttpError with status < 500 is raised again at once; any other
\* HttpError, HttpLib2Error or IOError counts one more progressless
\* iteration, which raises the error if the count exceeds self._max_retries
\* and sleeps otherwise; a moved chunk sets the count to 0.
NextChunk ==
    /\ transfer \in {"upload_object", "download_object"}
    /\ coutcome = "none"
    /\ chunks_left > 0
    /\ \E r \in {"ok", "HttpError4xx", "HttpError5xx", "HttpLib2Error", "IOError"} :
          /\ attempts' = Append(attempts, r)
          /\ IF r = "ok"
                THEN /\ chunks_left' = chunks_left - 1
                     /\ progressless_iters' = 0
                     /\ coutcome' = IF chunks_left' = 0 THEN "returned" ELSE "none"
                     /\ UNCHANGED csleeps
                ELSE IF r = "HttpError4xx"
                THEN /\ coutcome' = "raised"
                     /\ UNCHANGED <<chunks_left, progressless_iters, csleeps>>
                ELSE /\ progressless_iters' = progressless_iters + 1
                     /\ IF progressless_iters' > self_max_retries
                           THEN coutcome' = "raised" /\ UNCHANGED csleeps
                           ELSE coutcome' = "none" /\ csleeps' = csleeps + 1
                     /\ UNCHANGED chunks_left
    /\ UNCHANGED <<transfer, self_max_retries>>
    /\ UNCHANGED <<epc, eresp, object_list, zones, zframes, zcur, zlog, zout>>
    /\ UNCHANGED <<listVars, pollVars, errVars, waitVars, callVars, twoVars>>

SpecChunks == InitChunks /\ [][NextChunk]_vars


\* ------------------------------------------- two interleaved invocations
\* Two iterate_list generators with the same arguments over the same
\* service, or two poll_job_status waits for jobs that go through the same
\* payloads, have been created; none has run.
InitTwo ==
    /\ \/ /\ invocation = "iterate_list"
          /\ pages \in PageChains
          /\ max_results \in {NoCap} \cup (0..MaxCap)
          /\ filter_exp \in Predicates(IdsOf(pages))
          /\ frames = [i \in {1, 2} |->
                          [pc |-> "created", resp |-> NoResp, idx |-> 1,
                           object_count |-> 0, page_token |-> NoToken,
                           calls |-> <<>>, out |-> <<>>]]
          /\ waiter = "none"
          /\ remote = <<NoPayload>>
       \/ /\ invocation = "poll_job_status"
          /\ pages = <<[haskey |-> FALSE, n |-> 0]>>
          /\ max_results = NoCap
          /\ filter_exp = [isNone |-> TRUE, on |-> {}]
          /\ frames = [i \in {1, 2} |->
                          [pc |-> "test", job_resp |-> InsertedJob,
                           status_state |-> "None", polls |-> 0, naps |-> 0,
                           result |-> NoOutcome]]
          /\ waiter = "poll_job_status"
          /\ remote \in Scripts(BqPayloads)
    /\ max_retries = 3
    /\ kwargs = "kwA"
    /\ break_condition = [isNone |-> TRUE, on |-> {}]
    /\ pc = "idle"
    /\ resp = NoResp
    /\ idx = 1
    /\ object_count = 0
    /\ page_token = NoToken
    /\ calls = <<>>
    /\ out = <<>>
    /\ results = <<>>
    /\ pulls = 0
    /\ entry = "direct"
    /\ wait_finish = TRUE
    /\ end_state = "DONE"
    /\ wpc = "idle"
    /\ wresp = NoPayload
    /\ status = "None"
    /\ is_complete = FALSE
    /\ polls = 0
    /\ naps = 0
    /\ wresult = NoOutcome
    /\ IdlePoll
    /\ IdleExt
    /\ IdleErr
    /\ IdleCalls

\* utils.py lines 15-62 on the generator's own frame f: the frame after its
\* next step (the list call of lines 18-20 or 41-46, one turn of the for
\* loop of lines 22-38 or 48-62, the while test of line 40, or the resumption
\* after a yield).
GenStep(f) ==
    CASE f.pc = "created" ->
            [f EXCEPT !.calls = Append(@, NoToken), !.resp = Response(1),
                      !.idx = 1, !.pc = "for"]
      [] f.pc = "listN" ->
            [f EXCEPT !.calls = Append(@, f.page_token),
                      !.resp = Response(ServedPage(f.page_token)),
                      !.idx = 1, !.pc = "for"]
      [] f.pc = "for" ->
            IF (~HasKey(f.resp)) \/ f.idx > Len(f.resp.items)
            THEN [f EXCEPT !.pc = "while"]
            ELSE IF FilterRejects(f.resp.items[f.idx])
            THEN [f EXCEPT !.idx = @ + 1]
            ELSE IF (max_results # NoCap /\ f.object_count >= max_results)
                    \/ BreakHolds(f.resp.items[f.idx])
            THEN [f EXCEPT !.resp = PopToken(@), !.pc = "while"]
            ELSE [f EXCEPT !.object_count = @ + 1,
                           !.out = Append(@, f.resp.items[f.idx]),
                           !.idx = @ + 1, !.pc = "yield"]
      [] f.pc = "yield" -> [f EXCEPT !.pc = "for"]
      [] f.pc = "while" ->
            IF HasNextPage(f.resp)
            THEN [f EXCEPT !.page_token = f.resp.nextPageToken, !.pc = "listN"]
            ELSE [f EXCEPT !.pc = "done"]
      [] OTHER -> f

\* bigquery.py lines 226-240 on the wait's own frame f: the frame after its
\* next step (the loop test of line 228, the fetch of lines 229-234, the
\* sleep of line 235, or the raise or return of lines 237-240).
WaitStep(f) ==
    CASE f.pc = "test" ->
            [f EXCEPT !.pc = IF ~(f.status_state = "DONE") THEN "get" ELSE "check"]
      [] f.pc = "get" ->
            [f EXCEPT !.job_resp = Served(f.polls + 1),
                      !.status_state = Served(f.polls + 1).state,
                      !.polls = Bump(@), !.pc = "sleep"]
      [] f.pc = "sleep" -> [f EXCEPT !.naps = Bump(@), !.pc = "test"]
      [] f.pc = "check" ->
            [f EXCEPT !.result = [kind |-> IF f.job_resp.errorResult
                                          THEN "JobError" ELSE "returned",
                                  payload |-> f.job_resp],
                      !.pc = "end"]
      [] OTHER -> f

ListerStepSharedCount(i) ==
    /\ invocation = "iterate_list"
    /\ frames[i].pc # "done"
    /\ frames' = [j \in {1, 2} |->
                     IF j = i THEN GenStep(frames[i])
                     ELSE [frames[j] EXCEPT
                              !.object_count = GenStep(frames[i]).object_count]]
    /\ UNCHANGED <<invocation, listVars, pollVars, errVars, waitVars, callVars, extVars>>

\* Generator i takes its next step; the other generator's frame is not
\* touched (each generator object has its own locals).
ListerStep(i) ==
    /\ invocation = "iterate_list"
    /\ frames[i].pc # "done"
    /\ frames' = [frames EXCEPT ![i] = GenStep(frames[i])]
    /\ UNCHANGED <<invocation, listVars, pollVars, errVars, waitVars, callVars, extVars>>

\* Wait i takes its next step; status_state and job_resp are locals of the
\* call (bigquery.py lines 226, 229).
WaiterStep(i) ==
    /\ invocation = "poll_job_status"
    /\ frames[i].pc # "end"
    /\ frames' = [frames EXCEPT ![i] = WaitStep(frames[i])]
    /\ UNCHANGED <<invocation, listVars, pollVars, errVars, waitVars, callVars, extVars>>

NextTwo == \E i \in {1, 2} : ListerStep(i) \/ WaiterStep(i)

SpecTwo == InitTwo /\ [][NextTwo]_vars


\* ------------------------------------------------- reference definitions
Range(sq) == {sq[i] : i \in 1..Len(sq)}

Take(sq, k) == SubSeq(sq, 1, IF k < Len(sq) THEN k ELSE Len(sq))

\* The items of pages 1..n in server order.
RECURSIVE ItemsUpTo(_)
ItemsUpTo(n) == IF n = 0 THEN <<>> ELSE ItemsUpTo(n - 1) \o ItemsOfPage(pages, n)

AllItems == ItemsUpTo(Len(pages))

RECURSIVE CountUpTo(_)
CountUpTo(n) == IF n = 0 THEN 0 ELSE CountUpTo(n - 1) + pages[n].n

Accepts(x) == filter_exp.isNone \/ x \in filter_exp.on

Breaks(x) == (~break_condition.isNone) /\ x \in break_condition.on

Passing(sq) == SelectSeq(sq, Accepts)

NoOptions == max_results = NoCap /\ filter_exp.isNone /\ break_condition.isNone

AllCallsOk == \A i \in 1..Len(calls) : calls[i].ok

\* ------------------------------------ the eager lister gwrappy.iterator
\* iterator.iterate_list and utils.iterate_list have been called with the
\* same service, max_results and filter_exp (break_condition unset); neither
\* has run.
InitEager ==
    /\ InitList
    /\ break_condition.isNone
    /\ transfer = "none"
    /\ self_max_retries = 3
    /\ chunks_left = 0
    /\ progressless_iters = 0
    /\ attempts = <<>>
    /\ csleeps = 0
    /\ coutcome = "none"
    /\ epc = "start"
    /\ eresp = NoResp
    /\ object_list = <<>>
    /\ zones = 0
    /\ zframes = <<>>
    /\ zcur = 1
    /\ zlog = <<>>
    /\ zout = <<>>
    /\ IdlePoll
    /\ IdleErr
    /\ IdleWait
    /\ IdleCalls
    /\ IdleTwo

\* iterator.py lines 2-24: the first service.list(...).execute(); a response
\* without the object_name key returns []; else the filtered items are
\* added, and a list longer than max_results is cut and returned
EagerFirst ==
    /\ epc = "start"
    /\ \/ /\ eresp' = Response(1)
          /\ IF HasKey(eresp')
                THEN LET l == Passing(eresp'.items)
                     IN  IF max_results # NoCap /\ Len(l) > max_results
                            THEN /\ object_list' = Take(l, max_results)
                                 /\ epc' = "end"
                            ELSE /\ object_list' = l
                                 /\ epc' = "while"
                ELSE /\ object_list' = <<>>
                     /\ epc' = "end"
       \/ /\ epc' = "raised"
          /\ UNCHANGED <<eresp, object_list>>
    /\ UNCHANGED <<transfer, self_max_retries, chunks_left, progressless_iters,
                   attempts, csleeps, coutcome, zones, zframes, zcur, zlog, zout>>
    /\ UNCHANGED <<listVars, pollVars, errVars, waitVars, callVars, twoVars>>

\* iterator.py lines 26-46: while 'nextPageToken' in resp the next page is
\* fetched and its filtered items are added; a list longer than max_results
\* is cut and the loop is left; return object_list
EagerNext ==
    /\ epc = "while"
    /\ IF HasNextPage(eresp)
          THEN \/ /\ eresp' = Response(ServedPage(eresp.nextPageToken))
                  /\ LET l == IF HasKey(eresp')
                                 THEN object_list \o Passing(eresp'.items)
                                 ELSE object_list
                     IN  IF max_results # NoCap /\ Len(l) > max_results
                            THEN /\ object_list' = Take(l, max_results)
                                 /\ epc' = "end"
                            ELSE /\ object_list' = l
                                 /\ epc' = "while"
               \/ /\ epc' = "raised"
                  /\ UNCHANGED <<eresp, object_list>>
          ELSE /\ epc' = "end"
               /\ UNCHANGED <<eresp, object_list>>
    /\ UNCHANGED <<transfer, self_max_retries, chunks_left, progressless_iters,
                   attempts, csleeps, coutcome, zones, zframes, zcur, zlog, zout>>
    /\ UNCHANGED <<listVars, pollVars, errVars, waitVars, callVars, twoVars>>

NextEager == Next \/ EagerFirst \/ EagerNext

SpecEager == InitEager /\ [][NextEager]_vars


\* ------------------------- ComputeEngineUtility listings over every zone
MaxZones == 2

\* list_instances, list_addresses or list_operations is about to be called
\* without a zone / region, in a project of zones zones (regions); every
\* zone's listing service holds pages.
InitZones ==
    /\ pages \in PageChains
    /\ max_results \in {NoCap} \cup (0..MaxCap)
    /\ max_retries = 3
    /\ kwargs = "kwA"
    /\ filter_exp = [isNone |-> TRUE, on |-> {}]
    /\ break_condition = [isNone |-> TRUE, on |-> {}]
    /\ pc = "created"
    /\ resp = NoResp
    /\ idx = 1
    /\ object_count = 0
    /\ page_token = NoToken
    /\ calls = <<>>
    /\ out = <<>>
    /\ results = <<>>
    /\ pulls = 0
    /\ transfer = "none"
    /\ self_max_retries = 3
    /\ chunks_left = 0
    /\ progressless_iters = 0
    /\ attempts = <<>>
    /\ csleeps = 0
    /\ coutcome = "none"
    /\ epc = "idle"
    /\ eresp = NoResp
    /\ object_list = <<>>
    /\ zones \in 1..MaxZones
    /\ zframes = <<>>
    /\ zcur = 1
    /\ zlog = <<>>
    /\ zout = <<>>
    /\ IdlePoll
    /\ IdleErr
    /\ IdleWait
    /\ IdleCalls
    /\ IdleTwo

\* compute.py lines 89-101 (list_instances), 124-136 (list_addresses),
\* 170-195 (list_operations): the list comprehension runs self.list_zones()
\* or self.list_regions() to its end and creates one iterate_list generator
\* per zone, none of which has run; chain(*return_list) is returned
ListZones ==
    /\ zones >= 1
    /\ zlog = <<>>
    /\ \E m \in {"list_instances", "list_addresses",
                  "list_operations_zone", "list_operations_region"} :
          zlog' = <<[method |-> m,
                     service |-> IF m \in {"list_instances", "list_operations_zone"}
                                   THEN "zones" ELSE "regions",
                     zone |-> 0]>>
    /\ zframes' = [z \in 1..zones |->
                      [pc |-> "created", resp |-> NoResp, idx |-> 1,
                       object_count |-> 0, page_token |-> NoToken,
                       calls |-> <<>>, out |-> <<>>]]
    /\ UNCHANGED <<transfer, self_max_retries, chunks_left, progressless_iters,
                   attempts, csleeps, coutcome, epc, eresp, object_list,
                   zones, zcur, zout>>
    /\ UNCHANGED <<listVars, pollVars, errVars, waitVars, callVars, twoVars>>

\* compute.py line 101: the count of the items goes on from zone to zone
ZoneStepSharedCount ==
    /\ zlog # <<>>
    /\ zcur <= zones
    /\ LET f == zframes[zcur]
           g == GenStep(f)
       IN  IF f.pc = "done"
              THEN /\ zcur' = zcur + 1
                   /\ zframes' = IF zcur < zones
                                   THEN [zframes EXCEPT
                                           ![zcur + 1].object_count = f.object_count]
                                   ELSE zframes
                   /\ UNCHANGED <<zlog, zout>>
              ELSE /\ zframes' = [zframes EXCEPT ![zcur] = g]
                   /\ zlog' = IF Len(g.calls) > Len(f.calls)
                                 THEN Append(zlog, [method |-> zlog[1].method,
                                                    service |-> "items",
                                                    zone |-> zcur])
                                 ELSE zlog
                   /\ zout' = IF Len(g.out) > Len(f.out)
                                 THEN Append(zout, [zone |-> zcur,
                                                    item |-> g.out[Len(g.out)]])
                                 ELSE zout
                   /\ UNCHANGED zcur
    /\ UNCHANGED <<transfer, self_max_retries, chunks_left, progressless_iters,
                   attempts, csleeps, coutcome, epc, eresp, object_list, zones>>
    /\ UNCHANGED <<listVars, pollVars, errVars, waitVars, callVars, twoVars>>

\* compute.py line 101, chain(*return_list), as the consumer pulls it: the
\* current zone's generator takes its next step (utils.py 15-62); once it
\* is exhausted the chain moves on to the next zone's generator
ZoneStep ==
    /\ zlog # <<>>
    /\ zcur <= zones
    /\ LET f == zframes[zcur]
           g == GenStep(f)
       IN  IF f.pc = "done"
              THEN /\ zcur' = zcur + 1
                   /\ UNCHANGED zframes
                   /\ UNCHANGED <<zlog, zout>>
              ELSE /\ zframes' = [zframes EXCEPT ![zcur] = g]
                   /\ zlog' = IF Len(g.calls) > Len(f.calls)
                                 THEN Append(zlog, [method |-> zlog[1].method,
                                                    service |-> "items",
                                                    zone |-> zcur])
                                 ELSE zlog
                   /\ zout' = IF Len(g.out) > Len(f.out)
                                 THEN Append(zout, [zone |-> zcur,
                                                    item |-> g.out[Len(g.out)]])
                                 ELSE zout
                   /\ UNCHANGED zcur
    /\ UNCHANGED <<transfer, self_max_retries, chunks_left, progressless_iters,
                   attempts, csleeps, coutcome, epc, eresp, object_list, zones>>
    /\ UNCHANGED <<listVars, pollVars, errVars, waitVars, callVars, twoVars>>

NextZones == ListZones \/ ZoneStep

SpecZones == InitZones /\ [][NextZones]_vars


\* ------------------------------------------------------------------ C1
\* C1: with no max_results, no filter_exp and no break_condition the items
\* handed to the consumer are, at every moment, a prefix of the concatenation
\* of the pages' item lists in page order, and when the sequence ends they
\* are the whole concatenation, as many as the per-page counts add up to.
C1_Concatenation ==
    NoOptions =>
        /\ out = Take(AllItems, Len(out))
        /\ pc = "done" => /\ out = AllItems
                          /\ Len(out) = CountUpTo(Len(pages))

C1_Witness ==
    /\ NoOptions
    /\ pc = "done"
    /\ Len(pages) >= 2
    /\ pages[1].n >= 2
    /\ pages[2].n >= 1
    /\ Len(out) >= 3

\* ------------------------------------------------------------------ C2
\* C2: with max_results = k and break_condition unset, the consumer never
\* holds more than k items, what it holds is a prefix of the filter-passing
\* items in server order, and when the sequence ends it holds exactly the
\* first min(k, m) of them.
C2_FirstKPassing ==
    (break_condition.isNone /\ max_results # NoCap) =>
        /\ Len(out) <= max_results
        /\ out = Take(Passing(AllItems), Len(out))
        /\ pc = "done" => out = Take(Passing(AllItems), max_results)

\* The cut falls in the middle of a page, after an item the filter dropped.
C2_Witness ==
    /\ break_condition.isNone
    /\ max_results >= 1
    /\ pc = "done"
    /\ Len(out) = max_results
    /\ ~filter_exp.isNone
    /\ \E x \in IdsOf(pages) : x < out[Len(out)] /\ ~Accepts(x)
    /\ \E x \in IdsOf(pages) : /\ x > out[Len(out)]
                               /\ PageOf(x) = PageOf(out[Len(out)])
                               /\ Accepts(x)


\* ------------------------------------------------------------------ C3
\* C3: with max_results = k >= 1, break_condition unset and at least k
\* filter-passing items on the server, the sequence ends with exactly k items
\* and no list call is made for a page after the one holding the k-th item.
C3_NoFetchBeyondKth ==
    (break_condition.isNone /\ max_results >= 1
        /\ Len(Passing(AllItems)) >= max_results) =>
        /\ pc = "done" => Len(out) = max_results
        /\ Len(out) = max_results => Len(calls) <= PageOf(out[max_results])

\* ------------------------------------------------------------------ C4
\* Page p has been served and break_condition is true on its first item.
BreakOnFirstOf(p) == pages[p].n >= 1 /\ Breaks(ItemId(p, 1))

\* The generator never yields an item of page p, asks for no page after p,
\* and leaves page p with its continuation token dropped.
StopsAt(p) ==
    /\ \A x \in Range(out) : PageOf(x) # p
    /\ Len(calls) <= p
    /\ (Len(calls) = p /\ pc \in {"while", "done"}) => ~HasNextPage(resp)

\* C4 as stated: break_condition true on the first item of a page stops the
\* listing at that page, whatever filter_exp is.
C4_BreakOnFirstItem ==
    \A p \in 1..Len(pages) : BreakOnFirstOf(p) => StopsAt(p)

\* C4: break_condition true on the first item of a page stops the listing at
\* that page, provided that item passes filter_exp (or no filter_exp is set):
\* nothing of the page is yielded and no later page is requested.
C4_BreakOnFirstPassingItem ==
    \A p \in 1..Len(pages) :
        (BreakOnFirstOf(p) /\ Accepts(ItemId(p, 1))) => StopsAt(p)

\* The listing ended at a page that carried a token, on its first item.
C4_Witness ==
    /\ pc = "done"
    /\ AllCallsOk
    /\ Len(calls) < Len(pages)
    /\ max_results = NoCap
    /\ ~filter_exp.isNone
    /\ BreakOnFirstOf(Len(calls))
    /\ Accepts(ItemId(Len(calls), 1))

\* ------------------------------------------------------------------ C5
RejectsAll == (~filter_exp.isNone) /\ filter_exp.on = {}

\* C5: with a filter_exp that rejects every item nothing is ever yielded,
\* every continuation token is followed in turn and no call comes after the
\* page without a token; once the consumer has pulled, the generator ends
\* (or a list call fails), whatever max_results and break_condition are.
C5_RejectAll ==
    /\ [](RejectsAll =>
            /\ out = <<>>
            /\ Len(calls) <= Len(pages)
            /\ \A i \in 1..Len(calls) :
                   calls[i].pageToken = (IF i = 1 THEN NoToken ELSE Token(i))
            /\ pc = "done" => Len(calls) = Len(pages))
    /\ (RejectsAll /\ pulls > 0) ~> Finished

C5_Witness ==
    /\ RejectsAll
    /\ pc = "done"
    /\ max_results = 0
    /\ Len(pages) >= 2
    /\ pages[1].n >= 1
    /\ Len(calls) = Len(pages)

\* ------------------------------------------------------------------ C6
\* C6: a response without the object_name key yields nothing and raises
\* nothing (the only error a consumer sees is that of a failed list call); its
\* continuation token is left in place, so the listing goes on to the next
\* page, on the first page as on later ones.
C6_MissingKey ==
    /\ \A i \in 1..Len(results) :
           /\ results[i] \in {"item", "StopIteration", "HttpError"}
           /\ results[i] = "HttpError" => ~AllCallsOk
    /\ (pc = "while" /\ ~HasKey(resp)) =>
           resp.nextPageToken = Response(Len(calls)).nextPageToken
    /\ (max_results = NoCap /\ break_condition.isNone /\ pc = "done") =>
           /\ Len(calls) = Len(pages)
           /\ out = Passing(AllItems)

\* The first page lacks the key and the listing still delivered a later page.
C6_Witness ==
    /\ pc = "done"
    /\ ~pages[1].haskey
    /\ Len(pages) >= 2
    /\ Len(out) >= 1

\* ------------------------------------------------------------------ C7
\* C7: no list call happens before the consumer's first pull; while the
\* consumer holds an item of page p exactly p calls have been made; by the
\* time page n+1 is requested every filter-passing item of page n has been
\* handed over; the generator holds the items of the last fetched page only.
C7_Lazy ==
    /\ pulls = 0 => calls = <<>>
    /\ pc = "yield" => Len(calls) = PageOf(out[Len(out)])
    /\ \A x \in IdsOf(pages) :
           (PageOf(x) < Len(calls) /\ Accepts(x)) => x \in Range(out)
    /\ (Len(calls) >= 1 /\ AllCallsOk) =>
           resp.items = ItemsOfPage(pages, Len(calls))

\* The consumer holds the last item of page 1 and page 2 is not yet fetched.
C7_Witness ==
    /\ pc = "yield"
    /\ Len(pages) >= 2
    /\ Len(calls) = 1
    /\ idx > Len(resp.items)
    /\ HasNextPage(resp)

\* ------------------------------------------------------------------ C8
\* C8: with no cap and no break_condition there is one list call per page:
\* the first has no pageToken, each later one has the nextPageToken of the
\* response just before it, all carry the caller's kwargs and retry count,
\* and none follows a response without nextPageToken.
C8_OneCallPerPage ==
    (max_results = NoCap /\ break_condition.isNone) =>
        /\ Len(calls) <= Len(pages)
        /\ \A i \in 1..Len(calls) :
               /\ calls[i].kwargs = kwargs
               /\ calls[i].num_retries = max_retries
               /\ i = 1 => calls[i].pageToken = NoToken
               /\ i > 1 => /\ calls[i].pageToken # NoToken
                           /\ calls[i].pageToken =
                                  Response(ServedPage(calls[i - 1].pageToken)).nextPageToken
        /\ pc = "done" => Len(calls) = Len(pages)

C8_Witness ==
    /\ max_results = NoCap
    /\ break_condition.isNone
    /\ pc = "done"
    /\ Len(pages) >= 2
    /\ Len(calls) = Len(pages)
    /\ Len(out) >= 1

\* ------------------------------------------------------------------ C9
\* What a listing without transport errors delivers: the filter-passing items
\* up to the first one on which break_condition holds, cut at max_results.
RECURSIVE UntilBreak(_)
UntilBreak(sq) == IF sq = <<>> \/ Breaks(Head(sq)) THEN <<>>
                  ELSE <<Head(sq)>> \o UntilBreak(Tail(sq))

Expected == LET u == UntilBreak(Passing(AllItems)) IN
            IF max_results = NoCap THEN u ELSE Take(u, max_results)

CallFailed == Len(calls) >= 1 /\ ~calls[Len(calls)].ok

\* C9: a failed list call is the last one; its error is what the pull that
\* triggered it returns (the pull after the last delivered item), the
\* generator is over, and the items delivered before are those an error-free
\* listing delivers first, and stay as they are.
C9_ErrorPropagates ==
    /\ [](/\ \A i \in 1..(Len(calls) - 1) : calls[i].ok
          /\ CallFailed =>
                /\ pc = "raised"
                /\ Len(results) > Len(out)
                /\ results[Len(out) + 1] = "HttpError"
                /\ out = Take(Expected, Len(out)))
    /\ [][CallFailed => (calls' = calls /\ out' = out)]_vars

\* The second list call failed after an item had been delivered, and the
\* consumer pulled once more.
C9_Witness ==
    /\ CallFailed
    /\ Len(calls) = 2
    /\ Len(out) >= 1
    /\ Len(results) > Len(out) + 1

\* ----------------------------------------------------------------- C10
LastFetched == fetched[Len(fetched)]

\* C10: a wait that ended without a transport error ended on a fetched
\* payload whose state is DONE; it raised JobError exactly if that payload has
\* status.errorResult, and otherwise returned that payload.
C10_ErrorIffErrorResult ==
    (jpc = "end" /\ jresult.kind # "HttpError") =>
        /\ Len(fetched) >= 1
        /\ LastFetched.state = "DONE"
        /\ jresult.payload = LastFetched
        /\ jresult.kind = (IF LastFetched.errorResult THEN "JobError" ELSE "returned")

\* A job that was polled twice, ended without errorResult although errors is
\* present, and whose input job_resp carried an errorResult.
C10_Witness ==
    /\ jpc = "end"
    /\ jresult.kind = "returned"
    /\ Len(fetched) >= 2
    /\ LastFetched.errors
    /\ fetched[1].errorResult


\* ----------------------------------------------------------------- C11
Raised == job_error # NoJobError

\* C11: the JobError raised for an errored terminal payload has message,
\* reason and location equal to those of status.errorResult, None where the
\* field is missing, and errors equal to status.errors, the empty list where
\* that is missing.
C11_JobErrorFields ==
    Raised =>
        /\ \A f \in {"message", "reason", "location"} :
               job_error[f] = (IF err_resp.errorResult[f] = Absent THEN "None"
                               ELSE err_resp.errorResult[f])
        /\ job_error.errors = (IF err_resp.errors = Absent THEN "[]"
                               ELSE err_resp.errors)

\* A JobError built from a payload with a reason, no location, and no errors.
C11_Witness ==
    /\ Raised
    /\ err_resp.errorResult.message = "m1"
    /\ err_resp.errorResult.reason = "r2"
    /\ err_resp.errorResult.location = Absent
    /\ err_resp.errors = Absent


\* ----------------------------------------------------------------- C12
\* The terminal test of each waiter, as the specification states it.
Terminal(p) ==
    CASE waiter = "poll_job_status" -> p.state = "DONE"
      [] waiter = "poll_operation_status" -> p.state = end_state
      [] waiter = "get_operation" -> p.done \/ p.state = "DONE"
      [] waiter = "get_job" -> p.state = "DONE"
      [] OTHER -> FALSE

\* The position of the first terminal payload among the resource's payloads,
\* 0 if there is none: n + 1 for n non-terminal payloads and a terminal one.
FirstTerminal ==
    IF \E k \in 1..Len(remote) : Terminal(remote[k])
    THEN CHOOSE k \in 1..Len(remote) :
             /\ Terminal(remote[k])
             /\ \A j \in 1..(k - 1) : ~Terminal(remote[j])
    ELSE 0

\* The wait is over and gave the caller a payload or a JobError.
Answered == wpc = "end" /\ wresult.kind \in {"returned", "JobError"}

Waiting == waiter # "none" /\ wait_finish

\* C12: a waiter that has answered made exactly n + 1 status fetches, n being
\* the number of non-terminal payloads before the first terminal one, and
\* answered with that terminal payload; while it runs it never fetches beyond
\* it, and it does not answer without a fetch.
C12_OneFetchPerPayload ==
    Waiting =>
        /\ Answered =>
              /\ polls >= 1
              /\ FirstTerminal >= 1
              /\ polls = FirstTerminal
              /\ wresult.payload = remote[FirstTerminal]
        /\ FirstTerminal >= 1 => polls <= FirstTerminal

\* A wait that answers after two non-terminal payloads and a terminal one:
\* the Compute waiter with RUNNING as its end state.
C12_Witness ==
    /\ Answered
    /\ waiter = "poll_operation_status"
    /\ end_state = "RUNNING"
    /\ FirstTerminal = 3
    /\ polls = 3


\* ----------------------------------------------------------------- C13
\* C13: a waiter sleeps only after a non-terminal payload: it is never about
\* to sleep with a terminal payload in hand, and a wait that answered after
\* n non-terminal payloads and the terminal one has slept n times.
C13_SleepOnlyAfterNonTerminal ==
    Waiting =>
        /\ wpc = "sleep" => ~Terminal(wresp)
        /\ Answered => naps = polls - 1


\* ----------------------------------------------------------------- C14
\* The states in which the remote resource itself has finished: a Dataproc
\* job has finished in DONE, ERROR and CANCELLED alike.
HasFinished(p) ==
    IF waiter = "get_job" THEN p.state \in {"DONE", "ERROR", "CANCELLED"}
    ELSE Terminal(p)

\* The resource reaches a finished state and stays there.
Settles == HasFinished(remote[Len(remote)])

\* C14: a waiter whose resource reaches its finished state and stays there
\* eventually stops polling, with the payload, a JobError, or the transport
\* error of a failed fetch.
C14_EventuallyStops == (Waiting /\ Settles) ~> (wpc = "end")


\* ----------------------------------------------------------------- C15
\* The payloads fetched so far.
Fetched == {Served(k) : k \in 1..polls}

NoneTerminalYet == \A p \in Fetched : ~Terminal(p)

\* C15: while no fetched payload is terminal a waiter is inside its loop
\* (testing, fetching or sleeping; a failed fetch aside) and has given the
\* caller neither a payload nor a JobError, whatever the number of fetches
\* and whether or not a payload carried an errorResult.
C15_PollsUntilTerminal ==
    (Waiting /\ NoneTerminalYet) =>
        /\ wresult.kind \in {"none", "HttpError"}
        /\ wpc \in {"submit", "test", "get", "sleep"}
           \/ (wpc = "end" /\ wresult.kind = "HttpError")

\* poll_job_status has polled more often than the job has payloads, all of
\* them running and with an errorResult, and is about to fetch again.
C15_Witness ==
    /\ waiter = "poll_job_status"
    /\ polls = MaxFetches
    /\ polls > Len(remote)
    /\ \A p \in Fetched : p.state = "RUNNING" /\ p.errorResult
    /\ wpc = "get"
    /\ wresult = NoOutcome


\* ----------------------------------------------------------------- C16
\* C16: get_job with wait_finish=True, called directly or by
\* submit_spark_job / submit_pyspark_job, takes a fetched payload whose
\* status.state is DONE, ERROR or CANCELLED as the end of the wait: it does
\* not sleep or fetch again but returns that payload.
C16_ErrorAndCancelledEndTheWait ==
    (/\ waiter = "get_job"
     /\ wait_finish
     /\ polls >= 1
     /\ wresp.state \in {"DONE", "ERROR", "CANCELLED"}) =>
        /\ is_complete
        /\ wpc \in {"test", "return", "end"}
        /\ wpc = "end" /\ wresult # HttpError => wresult = [kind |-> "returned", payload |-> wresp]


\* ----------------------------------------------------------------- C17
\* The last payload of reference i's job.
FinalPayload(i) == response_list[i].job[Len(response_list[i].job)]

\* Element e of return_list is the outcome of reference i: a JobResponse of
\* the final payload of a job without errorResult, the JobError of a job
\* with one, or the HttpError of a fetch that failed.
OutcomeOf(e, i) ==
    \/ e = [kind |-> "JobResponse", payload |-> FinalPayload(i)] /\ ~FinalPayload(i).errorResult
    \/ e = [kind |-> "JobError", payload |-> FinalPayload(i)] /\ FinalPayload(i).errorResult
    \/ e = [kind |-> "HttpError", payload |-> NoPayload]

BatchReturned == method = "poll_resp_list" /\ moutcome.kind = "returned"

\* C17: poll_resp_list fills return_list in input order, element i being the
\* outcome of reference i, and the list it returns is as long as its input.
C17_PositionalOutcomes ==
    method = "poll_resp_list" =>
        /\ Len(return_list) <= Len(response_list)
        /\ \A i \in 1..Len(return_list) : OutcomeOf(return_list[i], i)
        /\ BatchReturned => Len(return_list) = Len(response_list)

\* Three references, the second an errored job: payload, error, payload.
C17_Witness ==
    /\ BatchReturned
    /\ Len(response_list) = 3
    /\ return_list[1].kind = "JobResponse"
    /\ return_list[2].kind = "JobError"
    /\ return_list[3].kind = "JobResponse"
    /\ Len(response_list[3].job) = 2

\* ----------------------------------------------------------------- C18
\* C18: poll_resp_list never ends with the JobError or HttpError of one
\* reference; while a reference is polled it is reference ri, every earlier
\* reference has its outcome in return_list and no later one has been
\* started; and when it returns, every reference has been polled.
C18_ErrorsCapturedInOrder ==
    method = "poll_resp_list" =>
        /\ moutcome.kind \notin {"JobError", "HttpError"}
        /\ mpc = "polling" =>
              /\ ri <= Len(response_list)
              /\ remote = response_list[ri].job
              /\ Len(return_list) = ri - 1
        /\ BatchReturned =>
              /\ ri = Len(response_list) + 1
              /\ rcalls >= Len(response_list)

\* A transport error on the first reference and an errored second job, and
\* the third reference was still polled to its end.
C18_Witness ==
    /\ BatchReturned
    /\ Len(response_list) = 3
    /\ return_list[1].kind = "HttpError"
    /\ return_list[2].kind = "JobError"
    /\ return_list[3].kind = "JobResponse"
    /\ rcalls >= 4


\* ----------------------------------------------------------------- C19
\* C19: a method that fails an assertion on its caller's input has issued no
\* remote call.
C19_AssertionBeforeAnyRemoteCall ==
    moutcome.kind = "AssertionError" => rcalls = 0

\* ----------------------------------------------------------------- C20
\* C20: once a fetch of a single wait has raised a transport error, the
\* caller has that transport error (not a JobError, not a payload), the wait
\* is over, and no step fetches or sleeps after it.
C20_TransportErrorEndsTheWait ==
    /\ [](wresult.kind = "HttpError" => wresult = HttpError /\ wpc = "end")
    /\ [][wresult.kind = "HttpError" => UNCHANGED <<wresult, wpc, polls, naps>>]_vars

\* The third fetch of get_operation failed, after two payloads and two sleeps.
C20_Witness ==
    /\ waiter = "get_operation"
    /\ wresult = HttpError
    /\ polls = 2
    /\ naps = 2


\* ----------------------------------------------------------------- C21
\* A lister that tests break_condition on every raw item, before filter_exp:
\* the position in server order of the raw item it stops at (break_condition
\* true, or a filter-passing item with max_results already reached), 0 if it
\* stops at none.
BreakFirstStop ==
    LET stops(i) ==
            \/ Breaks(AllItems[i])
            \/ /\ Accepts(AllItems[i])
               /\ max_results # NoCap
               /\ Len(Passing(Take(AllItems, i - 1))) >= max_results
    IN IF \E i \in 1..Len(AllItems) : stops(i)
       THEN CHOOSE i \in 1..Len(AllItems) :
                stops(i) /\ \A j \in 1..(i - 1) : ~stops(j)
       ELSE 0

\* What that lister yields, and the number of pages it fetches.
BreakFirstOut ==
    IF BreakFirstStop = 0 THEN Passing(AllItems)
    ELSE Passing(Take(AllItems, BreakFirstStop - 1))

BreakFirstCalls ==
    IF BreakFirstStop = 0 THEN Len(pages) ELSE PageOf(AllItems[BreakFirstStop])

\* C21 as stated: for every filter_exp and break_condition, iterate_list
\* yields the items and fetches the pages of the lister that tests
\* break_condition before filter_exp.
C21_BreakOrderIrrelevant ==
    (pc = "done" /\ AllCallsOk) =>
        /\ out = BreakFirstOut
        /\ Len(calls) = BreakFirstCalls

\* C21: iterate_list yields the items and fetches the pages of the lister
\* that tests break_condition before filter_exp whenever break_condition is
\* true only on items that pass filter_exp (or one of the two is unset).
C21_BreakOrderIrrelevantOnPassing ==
    (\A x \in IdsOf(pages) : Breaks(x) => Accepts(x)) =>
        ((pc = "done" /\ AllCallsOk) =>
            /\ out = BreakFirstOut
            /\ Len(calls) = BreakFirstCalls)

\* Both predicates are set, break_condition holds on a filter-passing item
\* of the first of two pages, after an item the filter dropped.
C21_Witness ==
    /\ pc = "done"
    /\ AllCallsOk
    /\ ~filter_exp.isNone
    /\ ~break_condition.isNone
    /\ \A x \in IdsOf(pages) : Breaks(x) => Accepts(x)
    /\ Len(pages) = 2
    /\ \E x \in IdsOf(pages) : Breaks(x) /\ PageOf(x) = 1 /\ x > 1 /\ ~Accepts(1)
    /\ Len(calls) = 1


\* ----------------------------------------------------------------- C22
\* C22: the listing makes at most one list call per page and yields at most
\* the items the server holds; once it has ended, a further pull gets
\* StopIteration and nothing else happens: no item, no list call, no restart.
C22_EndedStaysEnded ==
    /\ [](Len(calls) <= Len(pages) /\ Len(out) <= Len(AllItems))
    /\ [][Finished =>
            /\ results' = Append(results, "StopIteration")
            /\ UNCHANGED <<pc, out, calls, resp, object_count>>]_vars

\* The listing ended on max_results with a page left unfetched, and the
\* consumer has pulled again since.
C22_Witness ==
    /\ pc = "done"
    /\ max_results # NoCap
    /\ Len(out) = max_results
    /\ Len(calls) < Len(pages)
    /\ Len(results) >= 2
    /\ results[Len(results)] = "StopIteration"
    /\ results[Len(results) - 1] = "StopIteration"


\* ----------------------------------------------------------------- C23
\* C23: whatever the interleaving of two invocations, each one does what it
\* does when running alone: a generator asks for the pages in token order,
\* no further than a single listing goes, and yields the items a single
\* listing yields; a wait fetches up to the first DONE payload, sleeps as
\* often as it fetched, and ends with that payload or its JobError.
C23_IndependentInvocations ==
    /\ invocation = "iterate_list" =>
          \A i \in {1, 2} :
              LET f == frames[i] IN
              /\ f.out = Take(Expected, Len(f.out))
              /\ Len(f.calls) <= BreakFirstCalls
              /\ \A k \in 1..Len(f.calls) :
                     f.calls[k] = (IF k = 1 THEN NoToken ELSE Token(k))
              /\ f.pc = "done" => f.out = Expected /\ Len(f.calls) = BreakFirstCalls
    /\ invocation = "poll_job_status" =>
          \A i \in {1, 2} :
              LET f == frames[i] IN
              /\ FirstTerminal >= 1 => f.polls <= FirstTerminal
              /\ f.pc = "end" =>
                    /\ f.polls = FirstTerminal
                    /\ f.naps = FirstTerminal
                    /\ f.result =
                          [kind |-> IF remote[FirstTerminal].errorResult
                                    THEN "JobError" ELSE "returned",
                           payload |-> remote[FirstTerminal]]

\* Two capped listings over two pages: one has ended with both of its items
\* while the other is still suspended at its first yield.
C23_Witness ==
    /\ invocation = "iterate_list"
    /\ max_results = 2
    /\ Len(pages) = 2
    /\ pages[1].n = 1
    /\ frames[1].pc = "done"
    /\ Len(frames[1].out) = 2
    /\ frames[2].pc = "yield"
    /\ Len(frames[2].out) = 1


\* C24: in write_view and write_federated_table the first remote call is
\* tables().insert.  If it fails with 409 and overwrite_existing is True, the
\* next call is tables().delete, and after a successful delete the insert is
\* issued once more and never again: the method ends with that insert, and
\* ends with HttpError if it failed.  If the first insert fails otherwise
\* (overwrite_existing False, or a status other than 409), the method ends
\* at once with HttpError and the insert stays its only remote call.
C24_OverwriteOnConflict ==
    method \in {"write_view", "write_federated_table"} =>
        /\ Len(rlog) <= 3
        /\ Len(rlog) >= 1 => rlog[1].call = "tables.insert"
        /\ (Len(rlog) >= 1 /\ rlog[1].status = 409 /\ overwrite_existing) =>
              /\ mpc = "end" => Len(rlog) >= 2
              /\ Len(rlog) >= 2 => rlog[2].call = "tables.delete"
              /\ (mpc = "end" /\ Len(rlog) = 2) =>
                    moutcome.kind \in {"HttpError", "AssertionError"}
              /\ Len(rlog) = 3 =>
                    /\ rlog[2].status = 200
                    /\ rlog[3].call = "tables.insert"
                    /\ mpc = "end"
                    /\ moutcome.kind = IF rlog[3].status = 200
                                          THEN "returned" ELSE "HttpError"
        /\ (Len(rlog) >= 1 /\ rlog[1].status # 200
              /\ ~(rlog[1].status = 409 /\ overwrite_existing)) =>
              /\ Len(rlog) = 1
              /\ mpc = "end"
              /\ moutcome.kind = "HttpError"

\* write_view has overwritten an existing table and the second insert failed.
C24_Witness ==
    /\ method = "write_view"
    /\ overwrite_existing
    /\ Len(rlog) = 3
    /\ rlog[1].status = 409
    /\ rlog[3].status = 500
    /\ moutcome.kind = "HttpError"


\* C25: with wait_finish False nothing is polled.  A Dataproc get_operation
\* or get_job entered directly fetches at most once and never sleeps, and a
\* return carries the payload of that one fetch whatever its state.  The
\* BigQuery job methods never enter poll_job_status, never sleep and never
\* call jobs().get or getQueryResults: the method has ended as soon as
\* jobs().insert has been called, and that call is its last remote call.
C25_NoPollingWithoutWaitFinish ==
    ~wait_finish =>
        /\ (waiter \in {"get_operation", "get_job"} /\ entry = "direct") =>
              /\ polls <= 1
              /\ naps = 0
              /\ (wpc = "end" /\ wresult.kind = "returned") =>
                    polls = 1 /\ wresult.payload = remote[1]
        /\ method \in {"write_table", "load_from_gcs", "export_to_gcs",
                        "load_from_string", "copy_table"} =>
              /\ waiter = "none"
              /\ polls = 0
              /\ naps = 0
              /\ \A i \in 1..Len(rlog) :
                    /\ rlog[i].call # "jobs.getQueryResults"
                    /\ rlog[i].call = "jobs.insert" => i = Len(rlog) /\ mpc = "end"
              /\ method # "copy_table" => rcalls = Len(rlog)
              /\ method = "copy_table" => rcalls <= 1 /\ (rcalls = 1 => mpc = "end")
              /\ (mpc = "end" /\ moutcome.kind = "returned") =>
                    /\ rcalls >= 1
                    /\ method # "copy_table" =>
                          /\ rlog[Len(rlog)].call = "jobs.insert"
                          /\ rlog[Len(rlog)].status = 200

\* get_job without wait_finish has returned a job that is still running, or
\* write_table without wait_finish has returned after deleting a view.
C25_Witness ==
    /\ ~wait_finish
    /\ \/ /\ waiter = "get_job"
          /\ entry = "direct"
          /\ wpc = "end"
          /\ wresult.kind = "returned"
          /\ wresult.payload.state # "DONE"
       \/ /\ method = "write_table"
          /\ mpc = "end"
          /\ moutcome.kind = "returned"
          /\ Len(rlog) = 3


\* C29 as stated: in write_table a tables().delete is issued, as the second
\* remote call and before any jobs().insert, if and only if the first call,
\* tables().get, found the destination with type VIEW; a 404 from
\* tables().get is ignored and jobs().insert is the next call; every other
\* HttpError, from tables().get (a status other than 404) or from
\* tables().delete (any status), ends the method with HttpError as its last
\* remote call, so no job is inserted.
C29_ViewDeletedBeforeInsert ==
    method = "write_table" =>
        /\ Len(rlog) >= 1 => rlog[1].call = "tables.get"
        /\ \A i \in 1..Len(rlog) :
              /\ rlog[i].call = "tables.delete" =>
                    i = 2 /\ rlog[1].status = 200 /\ rlog[1].type = "VIEW"
              /\ rlog[i].call = "jobs.insert" =>
                    \A j \in 1..Len(rlog) : rlog[j].call = "tables.delete" => j < i
        /\ (Len(rlog) >= 1 /\ rlog[1].type = "VIEW") =>
              /\ Len(rlog) = 1 => mpc = "delete"
              /\ Len(rlog) >= 2 => rlog[2].call = "tables.delete"
        /\ (Len(rlog) >= 1 /\ rlog[1].status = 404) =>
              /\ Len(rlog) = 1 => mpc = "insert"
              /\ Len(rlog) >= 2 => rlog[2].call = "jobs.insert"
        /\ \A i \in 1..Len(rlog) :
              (\/ rlog[i].call = "tables.get" /\ rlog[i].status \notin {200, 404}
               \/ rlog[i].call = "tables.delete" /\ rlog[i].status # 200) =>
                    /\ Len(rlog) = i
                    /\ mpc = "end"
                    /\ moutcome.kind = "HttpError"

\* C29 amended: as above, but the 404 that is ignored may come from
\* tables().get or from tables().delete; after either the job is inserted.
\* An HttpError with any other status from either call ends the method.
C29_NotFoundIgnoredInCheckAndDelete ==
    method = "write_table" =>
        /\ Len(rlog) >= 1 => rlog[1].call = "tables.get"
        /\ \A i \in 1..Len(rlog) :
              /\ rlog[i].call = "tables.delete" =>
                    i = 2 /\ rlog[1].status = 200 /\ rlog[1].type = "VIEW"
              /\ rlog[i].call = "jobs.insert" =>
                    \A j \in 1..Len(rlog) : rlog[j].call = "tables.delete" => j < i
        /\ (Len(rlog) >= 1 /\ rlog[1].type = "VIEW") =>
              /\ Len(rlog) = 1 => mpc = "delete"
              /\ Len(rlog) >= 2 => rlog[2].call = "tables.delete"
        /\ (Len(rlog) >= 1 /\ rlog[1].status = 404) =>
              /\ Len(rlog) = 1 => mpc = "insert"
              /\ Len(rlog) >= 2 => rlog[2].call = "jobs.insert"
        /\ \A i \in 1..Len(rlog) :
              /\ (rlog[i].call \in {"tables.get", "tables.delete"}
                    /\ rlog[i].status \notin {200, 404}) =>
                    /\ Len(rlog) = i
                    /\ mpc = "end"
                    /\ moutcome.kind = "HttpError"
              /\ (rlog[i].call = "tables.delete" /\ rlog[i].status = 404) =>
                    /\ Len(rlog) = i => mpc = "insert"
                    /\ Len(rlog) > i => rlog[i + 1].call = "jobs.insert"

\* write_table found a view, the delete answered 404, and the job was
\* inserted all the same.
C29_Witness ==
    /\ method = "write_table"
    /\ Len(rlog) >= 3
    /\ rlog[1].type = "VIEW"
    /\ rlog[2].call = "tables.delete"
    /\ rlog[2].status = 404
    /\ rlog[3].call = "jobs.insert"
    /\ rlog[3].status = 200


\* C26: in upload_object and download_object the counter is 0 after every
\* successful chunk and otherwise counts the failed retryable attempts since
\* the last success; every retryable failure but the one that is raised has
\* been followed by a sleep, and the loop goes on after it; the transfer
\* has raised exactly when the last attempt was an HttpError below 500 or
\* was the (max_retries + 1)-th retryable failure in a row; and nothing is
\* attempted and nothing sleeps after an HttpError below 500.
C26_ProgresslessRetries ==
    transfer \in {"upload_object", "download_object"} =>
        LET n == Len(attempts)
            Retryable == {"HttpError5xx", "HttpLib2Error", "IOError"}
        IN  /\ progressless_iters <= self_max_retries + 1
            /\ progressless_iters <= n
            /\ \A i \in 1..n :
                  attempts[i] = "HttpError4xx" => i = n
            /\ (n >= 1 /\ attempts[n] = "ok") => progressless_iters = 0
            /\ (n >= 1 /\ attempts[n] \in Retryable) =>
                  /\ progressless_iters >= 1
                  /\ \A i \in (n - progressless_iters + 1)..n : attempts[i] \in Retryable
                  /\ n > progressless_iters => attempts[n - progressless_iters] = "ok"
                  /\ progressless_iters <= self_max_retries =>
                        coutcome = "none" /\ chunks_left > 0
            /\ csleeps = Cardinality({i \in 1..n : attempts[i] \in Retryable})
                          - (IF coutcome = "raised" /\ attempts[n] \in Retryable
                               THEN 1 ELSE 0)
            /\ coutcome = "raised" <=>
                  /\ n >= 1
                  /\ \/ attempts[n] = "HttpError4xx"
                     \/ /\ attempts[n] \in Retryable
                        /\ progressless_iters = self_max_retries + 1

\* An upload has moved a chunk after a failure and has then been given up
\* after max_retries + 1 failures in a row.
C26_Witness ==
    /\ transfer = "upload_object"
    /\ self_max_retries = 1
    /\ attempts = <<"IOError", "ok", "HttpError5xx", "HttpLib2Error">>
    /\ coutcome = "raised"
    /\ csleeps = 2


\* C27: in _iterate_job_results no getQueryResults call is made before
\* poll_job_status has returned the job in state DONE without an
\* errorResult; after a JobError nothing has been fetched.  The result
\* pages are fetched one after the other from the first: a page is fetched
\* only after a response that carried pageToken, and the method returns
\* only at a response without one, so a returned call has fetched every
\* page once.  The list it returns is the header row followed by the rows
\* of all pages in page order, and the header occurs nowhere else.
C27_ResultPagesInOrder ==
    method \in {"sync_query", "async_query"} =>
        LET k == Cardinality({i \in 1..Len(rlog) : rlog[i].status = 200})
        IN  /\ rlog # <<>> =>
                  /\ waiter = "poll_job_status"
                  /\ wpc = "end"
                  /\ wresult.kind = "returned"
                  /\ wresult.payload.state = "DONE"
                  /\ ~wresult.payload.errorResult
            /\ (wpc = "end" /\ wresult.kind # "returned") =>
                  rlog = <<>> /\ qresults = <<>>
            /\ \A i \in 1..Len(rlog) :
                  /\ rlog[i].call = "jobs.getQueryResults"
                  /\ i < Len(rlog) => rlog[i].status = 200
            /\ k <= Len(result_pages)
            /\ query_resp.isNone <=> k = 0
            /\ ~query_resp.isNone =>
                  (query_resp.pageToken # NoToken <=> k < Len(result_pages))
            /\ (mpc = "end" /\ moutcome.kind = "returned" /\ ~dry_run) =>
                  /\ Len(rlog) = Len(result_pages)
                  /\ k = Len(result_pages)
                  /\ arg = "list" =>
                        /\ Len(qresults) = 1 + TotalOf(result_pages)
                        /\ qresults[1] = Header
                        /\ \A i \in 2..Len(qresults) : qresults[i] # Header
                        /\ \A i \in 2..Len(qresults), j \in 2..Len(qresults) :
                              i < j => qresults[i] < qresults[j]
                        /\ {qresults[i] : i \in 2..Len(qresults)} = IdsOf(result_pages)

\* A query has returned the rows of two result pages as a list.
C27_Witness ==
    /\ method = "async_query"
    /\ arg = "list"
    /\ mpc = "end"
    /\ moutcome.kind = "returned"
    /\ Len(result_pages) = 2
    /\ result_pages[1].n >= 1
    /\ result_pages[2].n >= 1
    /\ Len(qresults) = 1 + TotalOf(result_pages)


\* C28: when the eager lister has returned and the generator is exhausted,
\* both without a failed list call, the list returned is the sequence of
\* the items yielded.
C28_EagerAgreesWithGenerator ==
    (epc = "end" /\ pc = "done" /\ AllCallsOk) => object_list = out


\* C30: a listing over every zone first lists the zones (regions) and only
\* then fetches per-zone pages, zone after zone in listing order; every
\* zone gets a generator of its own, so max_results caps each zone's items
\* separately; once the chain is exhausted the output is the concatenation,
\* in zone order, of each zone's capped listing.
C30_CapAppliesPerZone ==
    zlog # <<>> =>
        /\ zlog[1].service \in {"zones", "regions"}
        /\ \A i \in 2..Len(zlog) : zlog[i].service = "items"
        /\ \A i \in 1..Len(zlog), j \in 1..Len(zlog) :
              i < j => zlog[i].zone <= zlog[j].zone
        /\ Len(zframes) = zones
        /\ \A z \in 1..zones :
              /\ max_results # NoCap =>
                    Cardinality({i \in 1..Len(zout) : zout[i].zone = z}) <= max_results
              /\ z > zcur => zframes[z].pc = "created"
        /\ zcur > zones =>
              /\ Len(zout) = zones * Len(Expected)
              /\ \A i \in 1..Len(zout) :
                    zout[i] = [zone |-> ((i - 1) \div Len(Expected)) + 1,
                               item |-> Expected[((i - 1) % Len(Expected)) + 1]]

\* Two zones have been listed with max_results 1 and the output holds two
\* items, one of each zone.
C30_Witness ==
    /\ zones = 2
    /\ zcur > zones
    /\ max_results = 1
    /\ Len(zout) = 2
    /\ zout[1].zone = 1
    /\ zout[2].zone = 2

====
